---- MODULE Spec2Model ----
(***************************************************************************)
(* Model of source/ota_over_mqtt_demo.c: the OTA-over-MQTT demo built on   *)
(* the coreMQTT agent.  Three parts share the state below:                  *)
(*   - the event buffer pool (prvOTAEventBufferGet / prvOTAEventBufferFree) *)
(*   - the command bridge (prvMQTTPublish, prvMQTTSubscribe,                *)
(*     prvMQTTUnsubscribe and their completion callbacks)                   *)
(*   - the inbound dispatch (prvProcessIncomingData,                        *)
(*     prvProcessIncomingJobMessage and the job action dispatcher)          *)
(* Each part has its own next-state relation over the same variables.       *)
(***************************************************************************)
EXTENDS Integers, Sequences, FiniteSets, TLC

(***************************************************************************)
(* Bounds of the model.                                                     *)
(***************************************************************************)
\* Number of event buffers in the pool (otaconfigMAX_NUM_OTA_DATA_BUFFERS).
NumBuffers == 2
\* pdMS_TO_TICKS( otaexampleMQTT_TIMEOUT_MS ) at the scale of the model.
TimeoutTicks == 2
\* Number of Command Bridge calls issued in one behaviour.
MaxCalls == 2
\* Capacity of the subscription registry.
MaxSubscriptions == 1
\* Number of inbound messages delivered in one behaviour.
MaxMessages == 2
\* Number of calls of vSuspendOTACodeSigningDemo and vResumeOTACodeSigningDemo
\* in one behaviour.
MaxLifecycleCalls == 3
\* Number of data blocks delivered in one behaviour of the data path alone:
\* more than the pool has buffers.
MaxBlocks == 3

(***************************************************************************)
(* C strings.  A string is the sequence of its characters; the terminating  *)
(* NUL is implicit at index Len(s)+1.                                        *)
(***************************************************************************)
NUL == "\\0"

CharAt(s, i) == IF i <= Len(s) THEN s[i] ELSE NUL

\* The string that starts at (0-based) offset off of s: &s[ off ].
StrFrom(s, off) == SubSeq(s, off + 1, Len(s))

RECURSIVE StrncmpFrom(_, _, _, _)
StrncmpFrom(a, b, i, n) ==
    IF i > n THEN 0
    ELSE IF CharAt(a, i) # CharAt(b, i) THEN 1
    ELSE IF CharAt(a, i) = NUL THEN 0
    ELSE StrncmpFrom(a, b, i + 1, n)

\* strncmp( a, b, n ): 0 when the first n characters (or both whole strings)
\* agree, non-zero otherwise.  Only equality with 0 is tested by the program.
strncmp(a, b, n) == StrncmpFrom(a, b, 1, n)

OTA_TOPIC_PREFIX == <<"$", "a", "w", "s", "/", "t", "h", "i", "n", "g", "s", "/">>
OTA_TOPIC_PREFIX_LENGTH == Len(OTA_TOPIC_PREFIX)
OTA_TOPIC_JOBS == <<"j", "o", "b", "s">>
OTA_TOPIC_STREAM == <<"s", "t", "r", "e", "a", "m", "s">>
\* The thing name of the build (demo_config.h); any non-empty name will do.
democonfigCLIENT_IDENTIFIER == <<"d", "v">>

OtaMessageTypeJob == 0
OtaMessageTypeStream == 1
OtaNumOfMessageType == 2

pOtaMessageStrings == <<OTA_TOPIC_JOBS, OTA_TOPIC_STREAM>>

\* The for loops of getOtaMessageType that extract one path segment: the
\* index of the first '/' at or after stringIndex, or topicFilterLength.
RECURSIVE SegmentEnd(_, _, _)
SegmentEndInclusive(pTopicFilter, stringIndex, topicFilterLength) ==
    IF stringIndex <= topicFilterLength /\ CharAt(pTopicFilter, stringIndex + 1) # "/"
    THEN SegmentEnd(pTopicFilter, stringIndex + 1, topicFilterLength)
    ELSE stringIndex

SegmentEnd(pTopicFilter, stringIndex, topicFilterLength) ==
    IF stringIndex < topicFilterLength /\ CharAt(pTopicFilter, stringIndex + 1) # "/"
    THEN SegmentEnd(pTopicFilter, stringIndex + 1, topicFilterLength)
    ELSE stringIndex

\* The loop over pOtaMessageStrings: the first index whose keyword matches
\* the field, or OtaNumOfMessageType.
RECURSIVE MatchMessageString(_, _, _)
MatchMessageString(field, fieldLength, i) ==
    IF i >= OtaNumOfMessageType THEN OtaNumOfMessageType
    ELSE IF strncmp(field, pOtaMessageStrings[i + 1], fieldLength) = 0 THEN i
    ELSE MatchMessageString(field, fieldLength, i + 1)

\* The check of the topic prefix, made without a look at topicFilterLength.
PrefixIsValidUnchecked(pTopicFilter) == TRUE

PrefixIsValid(pTopicFilter) ==
    strncmp(pTopicFilter, OTA_TOPIC_PREFIX, OTA_TOPIC_PREFIX_LENGTH) = 0

getOtaMessageType(pTopicFilter, topicFilterLength) ==
    IF ~PrefixIsValid(pTopicFilter)
    THEN OtaNumOfMessageType
    ELSE
      LET nameEnd == SegmentEnd(pTopicFilter, OTA_TOPIC_PREFIX_LENGTH, topicFilterLength)
          nameLen == IF nameEnd > OTA_TOPIC_PREFIX_LENGTH
                     THEN nameEnd - OTA_TOPIC_PREFIX_LENGTH ELSE 0
      IN IF nameLen = 0
            \/ strncmp(StrFrom(pTopicFilter, nameEnd - nameLen),
                       democonfigCLIENT_IDENTIFIER, nameLen) # 0
         THEN OtaNumOfMessageType
         ELSE
           LET typeStart == nameEnd + 1
               typeEnd == SegmentEnd(pTopicFilter, typeStart, topicFilterLength)
               typeLen == IF typeEnd > typeStart THEN typeEnd - typeStart ELSE 0
           IN IF typeLen = 0 THEN OtaNumOfMessageType
              ELSE MatchMessageString(StrFrom(pTopicFilter, typeEnd - typeLen), typeLen, 0)

\* ---- the indices of pTopicFilter that getOtaMessageType reads ----
\* The number of characters of a that strncmp( a, b, n ) looks at.
RECURSIVE StrncmpReadCount(_, _, _, _)
StrncmpReadCount(a, b, i, n) ==
    IF i > n THEN 0
    ELSE IF CharAt(a, i) # CharAt(b, i) \/ CharAt(a, i) = NUL THEN 1
    ELSE 1 + StrncmpReadCount(a, b, i + 1, n)

\* The (0-based) indices read by strncmp( &pTopicFilter[ start ], other, n ).
CompareReads(pTopicFilter, start, other, n) ==
    LET k == StrncmpReadCount(StrFrom(pTopicFilter, start), other, 1, n)
    IN start .. (start + k - 1)

\* The indices read by one of the for loops that started at stringIndex:
\* every character it counted, and the '/' it stopped at if it did.
LoopReads(pTopicFilter, stringIndex, topicFilterLength) ==
    LET end == SegmentEnd(pTopicFilter, stringIndex, topicFilterLength)
    IN (stringIndex .. (end - 1)) \cup (IF end < topicFilterLength THEN {end} ELSE {})

\* The indices read by the loop over pOtaMessageStrings.
RECURSIVE MatchReads(_, _, _, _)
MatchReads(pTopicFilter, start, fieldLength, i) ==
    IF i >= OtaNumOfMessageType THEN {}
    ELSE CompareReads(pTopicFilter, start, pOtaMessageStrings[i + 1], fieldLength)
         \cup (IF strncmp(StrFrom(pTopicFilter, start), pOtaMessageStrings[i + 1], fieldLength) = 0
               THEN {}
               ELSE MatchReads(pTopicFilter, start, fieldLength, i + 1))

\* The indices read by the check of the prefix.
PrefixReads(pTopicFilter) ==
    CompareReads(pTopicFilter, 0, OTA_TOPIC_PREFIX, OTA_TOPIC_PREFIX_LENGTH)

\* The indices read while the thing name and the message type are extracted
\* and compared.
SegmentReads(pTopicFilter, topicFilterLength) ==
    IF ~PrefixIsValid(pTopicFilter) THEN {}
    ELSE
      LET nameStart == OTA_TOPIC_PREFIX_LENGTH
          nameEnd == SegmentEnd(pTopicFilter, nameStart, topicFilterLength)
          nameLen == IF nameEnd > nameStart THEN nameEnd - nameStart ELSE 0
          nameOk == nameLen > 0
                    /\ strncmp(StrFrom(pTopicFilter, nameEnd - nameLen),
                               democonfigCLIENT_IDENTIFIER, nameLen) = 0
          typeStart == nameEnd + 1
          typeEnd == SegmentEnd(pTopicFilter, typeStart, topicFilterLength)
          typeLen == IF typeEnd > typeStart THEN typeEnd - typeStart ELSE 0
      IN LoopReads(pTopicFilter, nameStart, topicFilterLength)
         \cup (IF nameLen > 0
               THEN CompareReads(pTopicFilter, nameEnd - nameLen,
                                 democonfigCLIENT_IDENTIFIER, nameLen)
               ELSE {})
         \cup (IF nameOk
               THEN LoopReads(pTopicFilter, typeStart, topicFilterLength)
                    \cup (IF typeLen > 0
                          THEN MatchReads(pTopicFilter, typeEnd - typeLen, typeLen, 0)
                          ELSE {})
               ELSE {})

(***************************************************************************)
(* Threads of control.                                                      *)
(***************************************************************************)
\* The task that runs OTA_EventProcessingTask: it calls the MQTT interface
\* of the update engine and the application callback.
OtaAgentTask == "OtaAgentTask"
\* The task of the MQTT agent: it runs the command completion callbacks and
\* the incoming publish callbacks.
MqttAgentTask == "MqttAgentTask"
Tasks == {OtaAgentTask, MqttAgentTask}

Slots == 0 .. (NumBuffers - 1)
\* A NULL OtaEventData_t pointer.
NULL == -1
\* xBufferSemaphore when no task holds it.
NoHolder == "free"

VARIABLES
    \* ---- buffer pool ----
    bufferUsed,        \* eventBuffer[ i ].bufferUsed
    xBufferSemaphore,  \* holder of the pool mutex, or NoHolder
    ppc,               \* per task: position inside prvOTAEventBufferGet/Free
    ulIndex,           \* per task: loop index of prvOTAEventBufferGet
    pFreeBuffer,       \* per task: pFreeBuffer of prvOTAEventBufferGet
    pxBuffer,          \* per task: argument of prvOTAEventBufferFree
    held               \* per task: slots handed out by acquire, not yet released

poolVars == <<bufferUsed, xBufferSemaphore, ppc, ulIndex, pFreeBuffer, pxBuffer, held>>

VARIABLES
    \* ---- command bridge ----
    bpc,               \* per task: position inside a Command Bridge call
    cur,               \* per task: the call in progress (its stack frame)
    nCalls,            \* number of calls issued so far; the next call is nCalls + 1
    notifyPending,     \* per task: notification state is "notification received"
    notifyValue,       \* per task: notification value
    notifySrc,         \* per task: the call whose completion sent the notification
    elapsed,           \* per task: ticks spent in the current xTaskNotifyWait
    mqttStatus,        \* per task: mqttStatus of the call in progress
    cause,             \* per task: how the call in progress left its wait
    agentQ,            \* commands accepted by the MQTT agent, not yet completed
    registry,          \* the subscription registry: topic filter -> callback
    ownDone,           \* per task: return code the completion callback of the
                       \* call in progress got, "none" before it fires
    lastRet,           \* per task: what the last finished call returned
    prevRet,           \* per task: what the call before that one returned
    uaf,               \* a completion callback used a context whose call returned
    fault              \* the program stopped on an assertion or a wild access

bridgeVars == <<bpc, cur, nCalls, notifyPending, notifyValue, notifySrc, elapsed,
                mqttStatus, cause, agentQ, registry, ownDone, lastRet, prevRet,
                uaf, fault>>

VARIABLES
    \* ---- inbound dispatch ----
    apc,               \* position of the MQTT agent task inside a receive callback
    msg,               \* the incoming publish being handled, and what was done for it
    nMsgs,             \* number of incoming publishes delivered so far
    otaEvents,         \* the event queue of the update engine
    dataLength,        \* eventBuffer[ i ].dataLength
    usJobIdBuffer,     \* staging copy of the job identifier
    usJobsDocumentBuffer, \* staging copy of the job document
    job,               \* the dispatcher's pending status report and follow-up
    reports,           \* the status reports handed to prvSendUpdateForJob
    xExitActionJobReceived,
    xDemoEncounteredError,
    terminateRequests  \* number of MQTTAgent_Terminate calls

inVars == <<apc, msg, nMsgs, otaEvents, dataLength, usJobIdBuffer, usJobsDocumentBuffer,
            job, reports, xExitActionJobReceived, xDemoEncounteredError,
            terminateRequests>>

VARIABLES
    \* ---- topic classification ----
    pTopicFilter,      \* the bytes at and after the address passed to getOtaMessageType
    topicFilterLength, \* the length passed with it
    retMesageType      \* what getOtaMessageType returned, NotCalled before the call

classVars == <<pTopicFilter, topicFilterLength, retMesageType>>

\* The lifecycle of the update engine and the task that suspends and
\* resumes it.
VARIABLES
    otaState,       \* the state OTA_GetState returns
    otaRequests,    \* lifecycle events sent to the update engine, not yet processed
    lpc,            \* position of the calling task in vSuspend/vResumeOTACodeSigningDemo
    lcall,          \* the call in progress or last finished: function, state at
                    \* entry, requests issued, calls of vTaskDelay
    nLifeCalls      \* calls made so far

lifeVars == <<otaState, otaRequests, lpc, lcall, nLifeCalls>>

\* prvGetAction on its own.
VARIABLES
    pcActionValue,       \* the bytes at pcAction: the value of "action", then the rest of the payload
    xActionValueLength,  \* the length JSON_Search reports for the value
    xAction         \* the JobActionType returned, NotClassified before the call

actVars == <<pcActionValue, xActionValueLength, xAction>>

\* The staging of the job identifier and the job document by prvNextJobHandler.
VARIABLES
    stagePc,            \* position of the handler
    stagePayload,       \* the payload in hand, as JSON_Validate and JSON_Search see it
    stagedJobIdLength,  \* bytes last copied to usJobIdBuffer
    stagedDocLength,    \* bytes last copied to usJobsDocumentBuffer
    stageOverrun,       \* a memcpy has written past the end of its destination
    stageDispatched,    \* prvProcessJobDocument was called for the payload in hand
    stageFault,         \* a configASSERT of the handler has failed
    nStaged             \* payloads handled so far

stageVars == <<stagePc, stagePayload, stagedJobIdLength, stagedDocLength, stageOverrun,
               stageDispatched, stageFault, nStaged>>

\* The lifecycle callback of the update engine and the loop of prvOTADemoTask.
VARIABLES
    dpc,            \* position of prvOTADemoTask in its loop
    appEvent,       \* the last event given to otaAppCallback and what it did
    nAppEvents,     \* events given to otaAppCallback so far
    deviceReset,    \* OTA_ActivateNewImage has reset the device
    statsReported   \* the loop has reported the statistics since the last start

demoVars == <<dpc, appEvent, nAppEvents, deviceReset, statsReported>>

vars == <<poolVars, bridgeVars, inVars, classVars, lifeVars, actVars, stageVars, demoVars>>

InitPool ==
    /\ bufferUsed = [s \in Slots |-> FALSE]
    /\ xBufferSemaphore = NoHolder
    /\ ppc = [t \in Tasks |-> "none"]
    /\ ulIndex = [t \in Tasks |-> 0]
    /\ pFreeBuffer = [t \in Tasks |-> NULL]
    /\ pxBuffer = [t \in Tasks |-> NULL]
    /\ held = [t \in Tasks |-> {}]

(***************************************************************************)
(* Buffer pool: prvOTAEventBufferGet and prvOTAEventBufferFree, one action  *)
(* per step a task can be preempted at.                                      *)
(***************************************************************************)
\* xSemaphoreTake( xBufferSemaphore, portMAX_DELAY ) can return pdTRUE for a
\* task only when no task holds the mutex; it blocks otherwise.
xSemaphoreTakeNoExclusion(sem, t) == TRUE

xSemaphoreTake(sem, t) == sem = NoHolder

GetTake(t) ==
    /\ ~fault
    /\ ppc[t] = "get_take"
    /\ xSemaphoreTake(xBufferSemaphore, t)
    /\ xBufferSemaphore' = t
    /\ ulIndex' = [ulIndex EXCEPT ![t] = 0]
    /\ ppc' = [ppc EXCEPT ![t] = "get_scan"]
    /\ UNCHANGED <<bufferUsed, pFreeBuffer, pxBuffer, held>>
    /\ UNCHANGED <<bridgeVars, inVars, classVars, lifeVars, actVars, stageVars, demoVars>>

\* One evaluation of the loop condition and of the test of bufferUsed.
GetScanSkipsLast(t) ==
    /\ ~fault
    /\ ppc[t] = "get_scan"
    /\ IF ulIndex[t] < NumBuffers - 1
       THEN IF bufferUsed[ulIndex[t]] = FALSE
            THEN /\ ppc' = [ppc EXCEPT ![t] = "get_set"]
                 /\ UNCHANGED ulIndex
            ELSE /\ ulIndex' = [ulIndex EXCEPT ![t] = @ + 1]
                 /\ UNCHANGED ppc
       ELSE /\ ppc' = [ppc EXCEPT ![t] = "get_give"]
            /\ UNCHANGED ulIndex
    /\ UNCHANGED <<bufferUsed, xBufferSemaphore, pFreeBuffer, pxBuffer, held>>
    /\ UNCHANGED <<bridgeVars, inVars, classVars, lifeVars, actVars, stageVars, demoVars>>

GetScan(t) ==
    /\ ~fault
    /\ ppc[t] = "get_scan"
    /\ IF ulIndex[t] < NumBuffers
       THEN IF bufferUsed[ulIndex[t]] = FALSE
            THEN /\ ppc' = [ppc EXCEPT ![t] = "get_set"]
                 /\ UNCHANGED ulIndex
            ELSE /\ ulIndex' = [ulIndex EXCEPT ![t] = @ + 1]
                 /\ UNCHANGED ppc
       ELSE /\ ppc' = [ppc EXCEPT ![t] = "get_give"]
            /\ UNCHANGED ulIndex
    /\ UNCHANGED <<bufferUsed, xBufferSemaphore, pFreeBuffer, pxBuffer, held>>
    /\ UNCHANGED <<bridgeVars, inVars, classVars, lifeVars, actVars, stageVars, demoVars>>

GetSet(t) ==
    /\ ~fault
    /\ ppc[t] = "get_set"
    /\ bufferUsed' = [bufferUsed EXCEPT ![ulIndex[t]] = TRUE]
    /\ pFreeBuffer' = [pFreeBuffer EXCEPT ![t] = ulIndex[t]]
    /\ ppc' = [ppc EXCEPT ![t] = "get_give"]
    /\ UNCHANGED <<xBufferSemaphore, ulIndex, pxBuffer, held>>
    /\ UNCHANGED <<bridgeVars, inVars, classVars, lifeVars, actVars, stageVars, demoVars>>

GetGiveKeepsMutex(t) ==
    /\ ~fault
    /\ ppc[t] = "get_give"
    /\ ppc' = [ppc EXCEPT ![t] = "get_ret"]
    /\ UNCHANGED <<bufferUsed, xBufferSemaphore, ulIndex, pFreeBuffer, pxBuffer, held>>
    /\ UNCHANGED <<bridgeVars, inVars, classVars, lifeVars, actVars, stageVars, demoVars>>

GetGive(t) ==
    /\ ~fault
    /\ ppc[t] = "get_give"
    /\ xBufferSemaphore' = NoHolder
    /\ ppc' = [ppc EXCEPT ![t] = "get_ret"]
    /\ UNCHANGED <<bufferUsed, ulIndex, pFreeBuffer, pxBuffer, held>>
    /\ UNCHANGED <<bridgeVars, inVars, classVars, lifeVars, actVars, stageVars, demoVars>>

FreeTake(t) ==
    /\ ~fault
    /\ ppc[t] = "free_take"
    /\ xSemaphoreTake(xBufferSemaphore, t)
    /\ xBufferSemaphore' = t
    /\ ppc' = [ppc EXCEPT ![t] = "free_clear"]
    /\ UNCHANGED <<bufferUsed, ulIndex, pFreeBuffer, pxBuffer, held>>
    /\ UNCHANGED <<bridgeVars, inVars, classVars, lifeVars, actVars, stageVars, demoVars>>

FreeClearAll(t) ==
    /\ ~fault
    /\ ppc[t] = "free_clear"
    /\ bufferUsed' = [s \in Slots |-> FALSE]
    /\ ppc' = [ppc EXCEPT ![t] = "free_give"]
    /\ UNCHANGED <<xBufferSemaphore, ulIndex, pFreeBuffer, pxBuffer, held>>
    /\ UNCHANGED <<bridgeVars, inVars, classVars, lifeVars, actVars, stageVars, demoVars>>

FreeClear(t) ==
    /\ ~fault
    /\ ppc[t] = "free_clear"
    /\ bufferUsed' = [bufferUsed EXCEPT ![pxBuffer[t]] = FALSE]
    /\ ppc' = [ppc EXCEPT ![t] = "free_give"]
    /\ UNCHANGED <<xBufferSemaphore, ulIndex, pFreeBuffer, pxBuffer, held>>
    /\ UNCHANGED <<bridgeVars, inVars, classVars, lifeVars, actVars, stageVars, demoVars>>

FreeGive(t) ==
    /\ ~fault
    /\ ppc[t] = "free_give"
    /\ xBufferSemaphore' = NoHolder
    /\ ppc' = [ppc EXCEPT ![t] = "free_ret"]
    /\ UNCHANGED <<bufferUsed, ulIndex, pFreeBuffer, pxBuffer, held>>
    /\ UNCHANGED <<bridgeVars, inVars, classVars, lifeVars, actVars, stageVars, demoVars>>

(***************************************************************************)
(* Callers of the pool on their own: any task acquires, and releases a      *)
(* slot it holds.                                                            *)
(***************************************************************************)
CallGet(t) ==
    /\ ~fault
    /\ ppc[t] = "none"
    /\ ppc' = [ppc EXCEPT ![t] = "get_take"]
    /\ pFreeBuffer' = [pFreeBuffer EXCEPT ![t] = NULL]
    /\ UNCHANGED <<bufferUsed, xBufferSemaphore, ulIndex, pxBuffer, held>>
    /\ UNCHANGED <<bridgeVars, inVars, classVars, lifeVars, actVars, stageVars, demoVars>>

ReturnGet(t) ==
    /\ ~fault
    /\ ppc[t] = "get_ret"
    /\ ppc' = [ppc EXCEPT ![t] = "none"]
    /\ held' = [held EXCEPT ![t] =
                  IF pFreeBuffer[t] # NULL THEN @ \cup {pFreeBuffer[t]} ELSE @]
    /\ UNCHANGED <<bufferUsed, xBufferSemaphore, ulIndex, pFreeBuffer, pxBuffer>>
    /\ UNCHANGED <<bridgeVars, inVars, classVars, lifeVars, actVars, stageVars, demoVars>>

CallFree(t) ==
    /\ ~fault
    /\ ppc[t] = "none"
    /\ \E s \in held[t] :
         /\ pxBuffer' = [pxBuffer EXCEPT ![t] = s]
         /\ held' = [held EXCEPT ![t] = @ \ {s}]
    /\ ppc' = [ppc EXCEPT ![t] = "free_take"]
    /\ UNCHANGED <<bufferUsed, xBufferSemaphore, ulIndex, pFreeBuffer>>
    /\ UNCHANGED <<bridgeVars, inVars, classVars, lifeVars, actVars, stageVars, demoVars>>

ReturnFree(t) ==
    /\ ~fault
    /\ ppc[t] = "free_ret"
    /\ ppc' = [ppc EXCEPT ![t] = "none"]
    /\ UNCHANGED <<bufferUsed, xBufferSemaphore, ulIndex, pFreeBuffer, pxBuffer, held>>
    /\ UNCHANGED <<bridgeVars, inVars, classVars, lifeVars, actVars, stageVars, demoVars>>

\* A caller releases once more the handle it released last, without having
\* acquired it again.
CallFreeAgain(t) ==
    /\ ~fault
    /\ ppc[t] = "none"
    /\ pxBuffer[t] # NULL
    /\ pxBuffer[t] \notin held[t]
    /\ ppc' = [ppc EXCEPT ![t] = "free_take"]
    /\ UNCHANGED <<bufferUsed, xBufferSemaphore, ulIndex, pFreeBuffer, pxBuffer, held>>
    /\ UNCHANGED <<bridgeVars, inVars, classVars, lifeVars, actVars, stageVars, demoVars>>

(***************************************************************************)
(* Command bridge.                                                          *)
(***************************************************************************)
MQTTSuccess == "MQTTSuccess"
MQTTBadParameter == "MQTTBadParameter"
MQTTNoMemory == "MQTTNoMemory"
MQTTSendFailed == "MQTTSendFailed"
MQTTRecvFailed == "MQTTRecvFailed"
MQTTServerRefused == "MQTTServerRefused"

OtaMqttSuccess == "OtaMqttSuccess"
OtaMqttPublishFailed == "OtaMqttPublishFailed"
OtaMqttSubscribeFailed == "OtaMqttSubscribeFailed"
OtaMqttUnsubscribeFailed == "OtaMqttUnsubscribeFailed"

\* What MQTTAgent_Publish / _Subscribe / _Unsubscribe can return at enqueue
\* time: accepted, or rejected as busy or as a bad parameter.
EnqueueStatuses == {MQTTSuccess, MQTTNoMemory, MQTTBadParameter}
\* The return codes the agent hands to a completion callback.
ReturnCodes == {MQTTSuccess, MQTTServerRefused}

Ops == {"publish", "subscribe", "unsubscribe"}

prvProcessIncomingJobMessageCb == "prvProcessIncomingJobMessage"
prvProcessIncomingDataCb == "prvProcessIncomingData"
otaMessageCallbackSwapped == <<prvProcessIncomingDataCb, prvProcessIncomingJobMessageCb>>

otaMessageCallback == <<prvProcessIncomingJobMessageCb, prvProcessIncomingDataCb>>
Callbacks == {prvProcessIncomingJobMessageCb, prvProcessIncomingDataCb}
NoCallback == "NULL"

\* The topic filters the update engine uses: its job topics and its stream.
TopicJobs == OTA_TOPIC_PREFIX \o democonfigCLIENT_IDENTIFIER \o <<"/">> \o OTA_TOPIC_JOBS \o <<"/", "#">>
TopicStream == OTA_TOPIC_PREFIX \o democonfigCLIENT_IDENTIFIER \o <<"/">> \o OTA_TOPIC_STREAM \o <<"/", "#">>
Topics == {TopicJobs, TopicStream}

\* The tasks that call the MQTT interface of the update engine.
BridgeCallers == {OtaAgentTask}

NoCall == [id |-> 0, op |-> "none", topic |-> <<>>, cb |-> NoCallback,
           xReturnStatus |-> MQTTSuccess]
NoCause == [kind |-> "none", src |-> 0]
NoRet == [op |-> "none", kind |-> "none", ownWake |-> FALSE, status |-> "none",
          ota |-> "none", waited |-> 0, own |-> "none", routed |-> FALSE]

InitBridge ==
    /\ bpc = [t \in Tasks |-> "idle"]
    /\ cur = [t \in Tasks |-> NoCall]
    /\ nCalls = 0
    /\ notifyPending = [t \in Tasks |-> FALSE]
    /\ notifyValue = [t \in Tasks |-> MQTTSuccess]
    /\ notifySrc = [t \in Tasks |-> 0]
    /\ elapsed = [t \in Tasks |-> 0]
    /\ mqttStatus = [t \in Tasks |-> MQTTBadParameter]
    /\ cause = [t \in Tasks |-> NoCause]
    /\ agentQ = {}
    /\ registry = {}
    /\ ownDone = [t \in Tasks |-> "none"]
    /\ lastRet = [t \in Tasks |-> NoRet]
    /\ prevRet = [t \in Tasks |-> NoRet]
    /\ uaf = FALSE
    /\ fault = FALSE

\* ---- the subscription registry (subscription_manager) ----
addSubscription(reg, filter, cb) ==
    IF [filter |-> filter, cb |-> cb] \in reg THEN [ok |-> TRUE, reg |-> reg]
    ELSE IF Cardinality(reg) < MaxSubscriptions
         THEN [ok |-> TRUE, reg |-> reg \cup {[filter |-> filter, cb |-> cb]}]
         ELSE [ok |-> FALSE, reg |-> reg]

removeSubscription(reg, filter) == {e \in reg : e.filter # filter}

\* ---- the result codes of the three operations ----
\* The status a call synthesizes when its xTaskNotifyWait returns pdFALSE.
TimeoutStatusAlwaysRecvFailed(op) == MQTTRecvFailed

TimeoutStatus(op) == IF op = "publish" THEN MQTTSendFailed ELSE MQTTRecvFailed

OtaFailure(op) ==
    CASE op = "publish" -> OtaMqttPublishFailed
      [] op = "subscribe" -> OtaMqttSubscribeFailed
      [] op = "unsubscribe" -> OtaMqttUnsubscribeFailed

\* The mapping at the end of prvMQTTPublish / prvMQTTSubscribe /
\* prvMQTTUnsubscribe from the MQTT status to the result of the interface.
OtaRetTimeoutAsSuccess(op, st) ==
    IF st \notin {MQTTSuccess, MQTTSendFailed, MQTTRecvFailed} THEN OtaFailure(op) ELSE OtaMqttSuccess

OtaRet(op, st) == IF st # MQTTSuccess THEN OtaFailure(op) ELSE OtaMqttSuccess

\* ---- task notifications ----
\* xTaskNotify( t, v, eSetValueWithOverwrite ), sent by the completion of call id.
xTaskNotify(t, v, id) ==
    /\ notifyPending' = [notifyPending EXCEPT ![t] = TRUE]
    /\ notifyValue' = [notifyValue EXCEPT ![t] = v]
    /\ notifySrc' = [notifySrc EXCEPT ![t] = id]

\* The stack frame of call id exists: the call has not returned.
FrameLive(id) == \E t \in Tasks : bpc[t] # "idle" /\ cur[t].id = id

\* ---- the steps of a call ----
\* Entry of prvMQTTPublish / prvMQTTSubscribe / prvMQTTUnsubscribe: the
\* arguments and the context are built on the caller's stack.
BridgeCall(t, op, topic) ==
    /\ ~fault
    /\ bpc[t] = "idle"
    /\ nCalls < MaxCalls
    /\ LET otaMessageType == getOtaMessageType(topic, Len(topic))
       IN IF op = "subscribe" /\ ~(otaMessageType < OtaNumOfMessageType)
          THEN /\ fault' = TRUE
               /\ UNCHANGED <<bpc, cur, nCalls, mqttStatus, cause, ownDone>>
          ELSE /\ cur' = [cur EXCEPT ![t] =
                      [id |-> nCalls + 1, op |-> op, topic |-> topic,
                       cb |-> IF op = "subscribe"
                              THEN otaMessageCallback[otaMessageType + 1]
                              ELSE NoCallback,
                       xReturnStatus |-> MQTTSuccess]]
               /\ nCalls' = nCalls + 1
               /\ mqttStatus' = [mqttStatus EXCEPT ![t] = MQTTBadParameter]
               /\ cause' = [cause EXCEPT ![t] = NoCause]
               /\ ownDone' = [ownDone EXCEPT ![t] = "none"]
               /\ bpc' = [bpc EXCEPT ![t] = "clear"]
               /\ UNCHANGED fault
    /\ UNCHANGED <<notifyPending, notifyValue, notifySrc, elapsed, agentQ, registry,
                   lastRet, prevRet, uaf>>
    /\ UNCHANGED <<poolVars, inVars, classVars, lifeVars, actVars, stageVars, demoVars>>

\* xTaskNotifyStateClear( NULL ): the notification state becomes "not
\* pending"; the notification value is left alone.
StateClearKeepsPending(t) ==
    /\ ~fault
    /\ bpc[t] = "clear"
    /\ bpc' = [bpc EXCEPT ![t] = "enqueue"]
    /\ UNCHANGED <<notifyPending, notifySrc>>
    /\ UNCHANGED <<cur, nCalls, notifyValue, elapsed, mqttStatus, cause,
                   agentQ, registry, ownDone, lastRet, prevRet, uaf, fault>>
    /\ UNCHANGED <<poolVars, inVars, classVars, lifeVars, actVars, stageVars, demoVars>>

StateClear(t) ==
    /\ ~fault
    /\ bpc[t] = "clear"
    /\ notifyPending' = [notifyPending EXCEPT ![t] = FALSE]
    /\ notifySrc' = [notifySrc EXCEPT ![t] = 0]
    /\ bpc' = [bpc EXCEPT ![t] = "enqueue"]
    /\ UNCHANGED <<cur, nCalls, notifyValue, elapsed, mqttStatus, cause,
                   agentQ, registry, ownDone, lastRet, prevRet, uaf, fault>>
    /\ UNCHANGED <<poolVars, inVars, classVars, lifeVars, actVars, stageVars, demoVars>>

\* MQTTAgent_Publish / MQTTAgent_Subscribe / MQTTAgent_Unsubscribe.  The
\* context of a publish is the task handle; the context of a subscribe or
\* unsubscribe is the address of xApplicationDefinedContext in the frame.
EnqueueAlwaysWaits(t, status) ==
    /\ ~fault
    /\ bpc[t] = "enqueue"
    /\ mqttStatus' = [mqttStatus EXCEPT ![t] = status]
    /\ IF status = MQTTSuccess
       THEN /\ agentQ' = agentQ \cup {[id |-> cur[t].id, op |-> cur[t].op, task |-> t,
                                      topic |-> cur[t].topic, cb |-> cur[t].cb]}
            /\ UNCHANGED cause
       ELSE /\ cause' = [cause EXCEPT ![t] = [kind |-> "rejected", src |-> 0]]
            /\ UNCHANGED agentQ
    /\ elapsed' = [elapsed EXCEPT ![t] = 0]
    /\ bpc' = [bpc EXCEPT ![t] = "wait"]
    /\ UNCHANGED <<cur, nCalls, notifyPending, notifyValue, notifySrc, registry,
                   ownDone, lastRet, prevRet, uaf, fault>>
    /\ UNCHANGED <<poolVars, inVars, classVars, lifeVars, actVars, stageVars, demoVars>>

Enqueue(t, status) ==
    /\ ~fault
    /\ bpc[t] = "enqueue"
    /\ mqttStatus' = [mqttStatus EXCEPT ![t] = status]
    /\ IF status = MQTTSuccess
       THEN /\ agentQ' = agentQ \cup {[id |-> cur[t].id, op |-> cur[t].op, task |-> t,
                                      topic |-> cur[t].topic, cb |-> cur[t].cb]}
            /\ elapsed' = [elapsed EXCEPT ![t] = 0]
            /\ bpc' = [bpc EXCEPT ![t] = "wait"]
            /\ UNCHANGED cause
       ELSE /\ cause' = [cause EXCEPT ![t] = [kind |-> "rejected", src |-> 0]]
            /\ bpc' = [bpc EXCEPT ![t] = "ret"]
            /\ UNCHANGED <<agentQ, elapsed>>
    /\ UNCHANGED <<cur, nCalls, notifyPending, notifyValue, notifySrc, registry,
                   ownDone, lastRet, prevRet, uaf, fault>>
    /\ UNCHANGED <<poolVars, inVars, classVars, lifeVars, actVars, stageVars, demoVars>>

\* One tick passes while the task is blocked in xTaskNotifyWait.
Tick(t) ==
    /\ ~fault
    /\ bpc[t] = "wait"
    /\ ~notifyPending[t]
    /\ elapsed[t] < TimeoutTicks
    /\ elapsed' = [elapsed EXCEPT ![t] = @ + 1]
    /\ UNCHANGED <<bpc, cur, nCalls, notifyPending, notifyValue, notifySrc, mqttStatus,
                   cause, agentQ, registry, ownDone, lastRet, prevRet, uaf, fault>>
    /\ UNCHANGED <<poolVars, inVars, classVars, lifeVars, actVars, stageVars, demoVars>>

\* xTaskNotifyWait( 0, otaexampleMAX_UINT32, &ulNotifiedValue, ticks ) returns.
\* With a notification pending it returns pdTRUE: the value is read, then
\* cleared, and becomes the status.  With none pending it returns pdFALSE
\* once the block time has expired, and the status is synthesized.
WaitReturn(t) ==
    /\ ~fault
    /\ bpc[t] = "wait"
    /\ IF notifyPending[t]
       THEN /\ mqttStatus' = [mqttStatus EXCEPT ![t] = notifyValue[t]]
            /\ cause' = [cause EXCEPT ![t] = [kind |-> "wake", src |-> notifySrc[t]]]
            /\ notifyPending' = [notifyPending EXCEPT ![t] = FALSE]
            /\ notifyValue' = [notifyValue EXCEPT ![t] = MQTTSuccess]
            /\ notifySrc' = [notifySrc EXCEPT ![t] = 0]
       ELSE /\ elapsed[t] = TimeoutTicks
            /\ mqttStatus' = [mqttStatus EXCEPT ![t] = TimeoutStatus(cur[t].op)]
            /\ cause' = [cause EXCEPT ![t] = [kind |-> "timeout", src |-> 0]]
            /\ UNCHANGED <<notifyPending, notifyValue, notifySrc>>
    /\ bpc' = [bpc EXCEPT ![t] = "ret"]
    /\ UNCHANGED <<cur, nCalls, elapsed, agentQ, registry, ownDone, lastRet, prevRet,
                   uaf, fault>>
    /\ UNCHANGED <<poolVars, inVars, classVars, lifeVars, actVars, stageVars, demoVars>>

\* The error class of a finished call.
ErrorClass(kind, status) ==
    IF kind = "wake"
    THEN IF status = MQTTSuccess THEN "success" ELSE "completion-failure"
    ELSE kind

\* The registry routes the call's topic filter as its operation asked.
Routed(reg, call) ==
    CASE call.op = "subscribe" -> [filter |-> call.topic, cb |-> call.cb] \in reg
      [] call.op = "unsubscribe" -> \A e \in reg : e.filter # call.topic
      [] OTHER -> TRUE

\* The call returns to the update engine: the frame is popped and the MQTT
\* status is mapped to the result of the interface.
Return(t) ==
    /\ ~fault
    /\ bpc[t] = "ret"
    /\ lastRet' = [lastRet EXCEPT ![t] =
           [op |-> cur[t].op, kind |-> cause[t].kind,
            ownWake |-> cause[t].src = cur[t].id, status |-> mqttStatus[t],
            ota |-> OtaRet(cur[t].op, mqttStatus[t]),
            waited |-> elapsed[t], own |-> ownDone[t],
            routed |-> Routed(registry, cur[t])]]
    /\ prevRet' = [prevRet EXCEPT ![t] = lastRet[t]]
    /\ bpc' = [bpc EXCEPT ![t] = "idle"]
    /\ cur' = [cur EXCEPT ![t] = NoCall]
    /\ elapsed' = [elapsed EXCEPT ![t] = 0]
    /\ mqttStatus' = [mqttStatus EXCEPT ![t] = MQTTBadParameter]
    /\ cause' = [cause EXCEPT ![t] = NoCause]
    /\ ownDone' = [ownDone EXCEPT ![t] = "none"]
    /\ UNCHANGED <<nCalls, notifyPending, notifyValue, notifySrc, agentQ, registry,
                   uaf, fault>>
    /\ UNCHANGED <<poolVars, inVars, classVars, lifeVars, actVars, stageVars, demoVars>>

\* ---- completion callbacks, run by the MQTT agent task ----
\* prvCommandCallback: the context is the handle of the task to notify.
CompletePublishWakesWaiter(c, code) ==
    /\ ~fault
    /\ apc = "idle"
    /\ c \in agentQ
    /\ c.op = "publish"
    /\ agentQ' = agentQ \ {c}
    /\ ownDone' = IF FrameLive(c.id) THEN [ownDone EXCEPT ![c.task] = code] ELSE ownDone
    /\ \E t \in Tasks : (t = c.task \/ bpc[t] = "wait") /\ xTaskNotify(t, code, c.id)
    /\ UNCHANGED <<bpc, cur, nCalls, elapsed, mqttStatus, cause, registry, lastRet,
                   prevRet, uaf, fault>>
    /\ UNCHANGED <<poolVars, inVars, classVars, lifeVars, actVars, stageVars, demoVars>>

CompletePublish(c, code) ==
    /\ ~fault
    /\ apc = "idle"
    /\ c \in agentQ
    /\ c.op = "publish"
    /\ agentQ' = agentQ \ {c}
    /\ ownDone' = IF FrameLive(c.id) THEN [ownDone EXCEPT ![c.task] = code] ELSE ownDone
    /\ xTaskNotify(c.task, code, c.id)
    /\ UNCHANGED <<bpc, cur, nCalls, elapsed, mqttStatus, cause, registry, lastRet,
                   prevRet, uaf, fault>>
    /\ UNCHANGED <<poolVars, inVars, classVars, lifeVars, actVars, stageVars, demoVars>>

\* The registry update of prvSubscriptionCommandCallback, on the context
\* ctx it reads through pxCommandContext.
RegistryAfterCallbackIgnoresCode(reg, ctx, code) ==
    IF ctx.isSubscribe
    THEN addSubscription(reg, ctx.filter, ctx.cb).reg
    ELSE removeSubscription(reg, ctx.filter)

RegistryAfterCallback(reg, ctx, code) ==
    IF code = MQTTSuccess
    THEN IF ctx.isSubscribe
         THEN addSubscription(reg, ctx.filter, ctx.cb).reg
         ELSE removeSubscription(reg, ctx.filter)
    ELSE reg

\* prvSubscriptionCommandCallback on a context whose call is still waiting
\* or about to return: the frame holds what the call put there.
CompleteSubscription(c, code) ==
    /\ ~fault
    /\ apc = "idle"
    /\ c \in agentQ
    /\ c.op # "publish"
    /\ FrameLive(c.id)
    /\ agentQ' = agentQ \ {c}
    /\ ownDone' = [ownDone EXCEPT ![c.task] = code]
    /\ cur' = [cur EXCEPT ![c.task].xReturnStatus = code]
    /\ registry' = RegistryAfterCallback(registry,
                       [isSubscribe |-> c.op = "subscribe", filter |-> c.topic, cb |-> c.cb],
                       code)
    /\ xTaskNotify(c.task, code, c.id)
    /\ UNCHANGED <<bpc, nCalls, elapsed, mqttStatus, cause, lastRet, prevRet, uaf, fault>>
    /\ UNCHANGED <<poolVars, inVars, classVars, lifeVars, actVars, stageVars, demoVars>>

\* prvSubscriptionCommandCallback on a context whose call has returned: the
\* frame is gone and the memory holds whatever was put there since.  The
\* task handle it reads is the one every frame of the issuing task stores at
\* that place, or a wild pointer on which the program stops; the operation,
\* filter and callback it reads are any that a frame can hold; its store to
\* xReturnStatus lands in the frame of the call in progress or elsewhere.
CompleteDangling(c, code) ==
    /\ ~fault
    /\ apc = "idle"
    /\ c \in agentQ
    /\ c.op # "publish"
    /\ ~FrameLive(c.id)
    /\ agentQ' = agentQ \ {c}
    /\ uaf' = TRUE
    /\ \/ /\ fault' = TRUE
          /\ UNCHANGED <<cur, registry, notifyPending, notifyValue, notifySrc>>
       \/ /\ \E isSubscribe \in BOOLEAN, filter \in Topics, cb \in Callbacks :
                registry' = RegistryAfterCallback(registry,
                                [isSubscribe |-> isSubscribe, filter |-> filter, cb |-> cb],
                                code)
          /\ xTaskNotify(c.task, code, c.id)
          /\ \/ UNCHANGED cur
             \/ /\ bpc[c.task] # "idle"
                /\ cur[c.task].op # "publish"
                /\ cur' = [cur EXCEPT ![c.task].xReturnStatus = code]
          /\ UNCHANGED fault
    /\ UNCHANGED <<bpc, nCalls, elapsed, mqttStatus, cause, ownDone, lastRet, prevRet>>
    /\ UNCHANGED <<poolVars, inVars, classVars, lifeVars, actVars, stageVars, demoVars>>

NextBridge ==
    \/ \E t \in BridgeCallers, op \in Ops, topic \in Topics : BridgeCall(t, op, topic)
    \/ \E t \in BridgeCallers : StateClear(t)
    \/ \E t \in BridgeCallers, status \in EnqueueStatuses : Enqueue(t, status)
    \/ \E t \in BridgeCallers : Tick(t)
    \/ \E t \in BridgeCallers : WaitReturn(t)
    \/ \E t \in BridgeCallers : Return(t)
    \/ \E c \in agentQ, code \in ReturnCodes : CompletePublish(c, code)
    \/ \E c \in agentQ, code \in ReturnCodes : CompleteSubscription(c, code)
    \/ \E c \in agentQ, code \in ReturnCodes : CompleteDangling(c, code)

(***************************************************************************)
(* Inbound dispatch: the two receive callbacks, run by the MQTT agent task, *)
(* and the job action dispatcher they call inline.                           *)
(***************************************************************************)
\* The largest payload a receive callback accepts, at the scale of the model.
OTA_DATA_BLOCK_SIZE == 2
PayloadLengths == 1 .. (OTA_DATA_BLOCK_SIZE + 1)

\* The bound on the length of a job identifier, at the scale of the model.
JOBS_JOBID_MAX_LENGTH == 9

AFR_OTA == <<"A", "F", "R", "_", "O", "T", "A">>
\* Job identifiers: one of the update engine, one of the application, and
\* one that is as long as JOBS_JOBID_MAX_LENGTH.
OtaJobId == AFR_OTA \o <<"1">>
CustomJobId == <<"j", "1">>
LongJobId == [i \in 1 .. JOBS_JOBID_MAX_LENGTH |-> "j"]
TopicJobIds == {OtaJobId, CustomJobId}

\* What Jobs_MatchTopic reports for the topic of a job message.
JobsDescribeSuccess == "JobsDescribeSuccess"
JobsNextJobChanged == "JobsNextJobChanged"
JobsUpdateSuccess == "JobsUpdateSuccess"
JobsStartNextFailed == "JobsStartNextFailed"
JobsUpdateFailed == "JobsUpdateFailed"
JobsJobsChanged == "JobsJobsChanged"
JobsNoMatch == "JobsNoMatch"
JobsApis == {JobsDescribeSuccess, JobsNextJobChanged, JobsUpdateSuccess,
             JobsStartNextFailed, JobsUpdateFailed, JobsJobsChanged, JobsNoMatch}

OtaAgentEventReceivedJobDocument == "OtaAgentEventReceivedJobDocument"
OtaAgentEventReceivedFileBlock == "OtaAgentEventReceivedFileBlock"

\* Job actions.
JOB_ACTION_PRINT == "JOB_ACTION_PRINT"
JOB_ACTION_PUBLISH == "JOB_ACTION_PUBLISH"
JOB_ACTION_EXIT == "JOB_ACTION_EXIT"
JOB_ACTION_UNKNOWN == "JOB_ACTION_UNKNOWN"

ActionPrint == <<"p", "r", "i", "n", "t">>
ActionPublish == <<"p", "u", "b", "l", "i", "s", "h">>
ActionExit == <<"e", "x", "i", "t">>
ActionBogus == <<"b", "o", "g", "u", "s">>
ActionStrings == {ActionPrint, ActionPublish, ActionExit, ActionBogus}

\* prvGetAction( pcAction, xActionLength ).
prvGetAction(pcAction, xActionLength) ==
    IF strncmp(pcAction, ActionPrint, xActionLength) = 0 THEN JOB_ACTION_PRINT
    ELSE IF strncmp(pcAction, ActionPublish, xActionLength) = 0 THEN JOB_ACTION_PUBLISH
    ELSE IF strncmp(pcAction, ActionExit, xActionLength) = 0 THEN JOB_ACTION_EXIT
    ELSE JOB_ACTION_UNKNOWN

\* A job document as JSON_Search sees it: which of the keys "action",
\* "message" and "topic" it has, and the value of "action".
NoDoc == [present |-> FALSE, hasAction |-> FALSE, action |-> <<>>,
          hasMessage |-> FALSE, hasTopic |-> FALSE]
Docs == {[present |-> TRUE, hasAction |-> FALSE, action |-> <<>>,
          hasMessage |-> FALSE, hasTopic |-> FALSE]}
        \cup {[present |-> TRUE, hasAction |-> TRUE, action |-> a,
               hasMessage |-> m, hasTopic |-> tp] :
                  a \in ActionStrings, m \in BOOLEAN, tp \in BOOLEAN}

\* The payload of a job message as JSON_Validate and JSON_Search see it.
NoJobId == <<>>
Payloads ==
    {[valid |-> FALSE, jobId |-> NoJobId, doc |-> NoDoc]}
    \cup {[valid |-> TRUE, jobId |-> j, doc |-> d] :
              j \in {NoJobId, CustomJobId, LongJobId}, d \in {NoDoc} \cup Docs}

\* publishInfo.qos of a status report.
MQTTQoS1 == "MQTTQoS1"

\* The topic Jobs_Update builds for the status report of a job.
JobsUpdateTopic(jobId) ==
    OTA_TOPIC_PREFIX \o democonfigCLIENT_IDENTIFIER \o <<"/">> \o OTA_TOPIC_JOBS
        \o <<"/">> \o jobId \o <<"/", "u", "p", "d", "a", "t", "e">>

NoMsg == [cb |-> NoCallback, payloadLength |-> 0, api |-> "none", jobId |-> NoJobId,
          freeAtEntry |-> FALSE, acquired |-> NULL, signals |-> 0,
          dispatched |-> FALSE, done |-> TRUE]
\* relay: whether xPublishToTopic was called for the document, and its result.
NoJob == [report |-> "none", then |-> "none", relay |-> "none"]

InitInbound ==
    /\ apc = "idle"
    /\ msg = NoMsg
    /\ nMsgs = 0
    /\ otaEvents = <<>>
    /\ dataLength = [s \in Slots |-> 0]
    /\ usJobIdBuffer = NoJobId
    /\ usJobsDocumentBuffer = NoDoc
    /\ job = NoJob
    /\ reports = <<>>
    /\ xExitActionJobReceived = FALSE
    /\ xDemoEncounteredError = FALSE
    /\ terminateRequests = 0

\* The MQTT agent receives a publish on a subscribed topic and calls the
\* callback registered for it.
Deliver(cb, payloadLength, api, jobId) ==
    /\ ~fault
    /\ apc = "idle"
    /\ nMsgs < MaxMessages
    /\ nMsgs' = nMsgs + 1
    /\ msg' = [cb |-> cb, payloadLength |-> payloadLength,
               api |-> IF cb = prvProcessIncomingJobMessageCb THEN api ELSE "none",
               jobId |-> IF cb = prvProcessIncomingJobMessageCb THEN jobId ELSE NoJobId,
               freeAtEntry |-> \E s \in Slots : ~bufferUsed[s],
               acquired |-> NULL, signals |-> 0, dispatched |-> FALSE, done |-> FALSE]
    /\ apc' = IF cb = prvProcessIncomingJobMessageCb THEN "job_entry" ELSE "data_entry"
    /\ UNCHANGED <<otaEvents, dataLength, usJobIdBuffer, usJobsDocumentBuffer, job,
                   reports, xExitActionJobReceived, xDemoEncounteredError,
                   terminateRequests>>
    /\ UNCHANGED <<poolVars, bridgeVars, classVars, lifeVars, actVars, stageVars, demoVars>>

\* A data block arrives on the stream topic: prvProcessIncomingData is called.
DeliverBlock(payloadLength) ==
    /\ ~fault
    /\ apc = "idle"
    /\ nMsgs < MaxBlocks
    /\ nMsgs' = nMsgs + 1
    /\ msg' = [cb |-> prvProcessIncomingDataCb, payloadLength |-> payloadLength,
               api |-> "none", jobId |-> NoJobId,
               freeAtEntry |-> \E s \in Slots : ~bufferUsed[s],
               acquired |-> NULL, signals |-> 0, dispatched |-> FALSE, done |-> FALSE]
    /\ apc' = "data_entry"
    /\ UNCHANGED <<otaEvents, dataLength, usJobIdBuffer, usJobsDocumentBuffer, job,
                   reports, xExitActionJobReceived, xDemoEncounteredError,
                   terminateRequests>>
    /\ UNCHANGED <<poolVars, bridgeVars, classVars, lifeVars, actVars, stageVars, demoVars>>

\* prvProcessIncomingData up to the call of prvOTAEventBufferGet.
DataEntryNoSizeCheck ==
    /\ ~fault
    /\ apc = "data_entry"
    /\ apc' = "get"
    /\ ppc' = [ppc EXCEPT ![MqttAgentTask] = "get_take"]
    /\ pFreeBuffer' = [pFreeBuffer EXCEPT ![MqttAgentTask] = NULL]
    /\ UNCHANGED fault
    /\ UNCHANGED <<bufferUsed, xBufferSemaphore, ulIndex, pxBuffer, held>>
    /\ UNCHANGED <<classVars, lifeVars, actVars, stageVars, demoVars>>
    /\ UNCHANGED <<bpc, cur, nCalls, notifyPending, notifyValue, notifySrc, elapsed,
                   mqttStatus, cause, agentQ, registry, ownDone, lastRet, prevRet, uaf>>
    /\ UNCHANGED <<msg, nMsgs, otaEvents, dataLength, usJobIdBuffer, usJobsDocumentBuffer,
                   job, reports, xExitActionJobReceived, xDemoEncounteredError,
                   terminateRequests>>

DataEntry ==
    /\ ~fault
    /\ apc = "data_entry"
    /\ IF msg.payloadLength <= OTA_DATA_BLOCK_SIZE
       THEN /\ apc' = "get"
            /\ ppc' = [ppc EXCEPT ![MqttAgentTask] = "get_take"]
            /\ pFreeBuffer' = [pFreeBuffer EXCEPT ![MqttAgentTask] = NULL]
            /\ UNCHANGED fault
       ELSE /\ fault' = TRUE
            /\ UNCHANGED <<apc, ppc, pFreeBuffer>>
    /\ UNCHANGED <<bufferUsed, xBufferSemaphore, ulIndex, pxBuffer, held>>
    /\ UNCHANGED <<classVars, lifeVars, actVars, stageVars, demoVars>>
    /\ UNCHANGED <<bpc, cur, nCalls, notifyPending, notifyValue, notifySrc, elapsed,
                   mqttStatus, cause, agentQ, registry, ownDone, lastRet, prevRet, uaf>>
    /\ UNCHANGED <<msg, nMsgs, otaEvents, dataLength, usJobIdBuffer, usJobsDocumentBuffer,
                   job, reports, xExitActionJobReceived, xDemoEncounteredError,
                   terminateRequests>>

\* The third argument of the strncmp that tells a job of the update engine
\* from a custom job: ( strlen( "AFR_OTA" ) == 0 ).
OtaJobCompareLength == IF Len(AFR_OTA) = 0 THEN 1 ELSE 0

\* The condition of the if statement: the value of strncmp, taken as a truth
\* value.
IsOtaJobBranchFullLength(pJobId) == strncmp(pJobId, AFR_OTA, Len(AFR_OTA)) # 0

IsOtaJobBranch(pJobId) == strncmp(pJobId, AFR_OTA, OtaJobCompareLength) # 0

\* prvProcessIncomingJobMessage up to the call of prvOTAEventBufferGet or of
\* prvNextJobHandler, or to its end when the message is only logged.
JobEntry ==
    /\ ~fault
    /\ apc = "job_entry"
    /\ IF msg.payloadLength > OTA_DATA_BLOCK_SIZE \/ msg.api = JobsNoMatch
       THEN /\ fault' = TRUE
            /\ UNCHANGED <<apc, ppc, pFreeBuffer, msg>>
       ELSE /\ UNCHANGED fault
            /\ IF IsOtaJobBranch(msg.jobId)
               THEN /\ apc' = "get"
                    /\ ppc' = [ppc EXCEPT ![MqttAgentTask] = "get_take"]
                    /\ pFreeBuffer' = [pFreeBuffer EXCEPT ![MqttAgentTask] = NULL]
                    /\ UNCHANGED msg
               ELSE /\ UNCHANGED <<ppc, pFreeBuffer>>
                    /\ IF msg.api \in {JobsDescribeSuccess, JobsNextJobChanged}
                       THEN /\ apc' = "next_job"
                            /\ msg' = [msg EXCEPT !.dispatched = TRUE]
                       ELSE /\ apc' = "idle"
                            /\ msg' = [msg EXCEPT !.done = TRUE]
    /\ UNCHANGED <<bufferUsed, xBufferSemaphore, ulIndex, pxBuffer, held>>
    /\ UNCHANGED <<classVars, lifeVars, actVars, stageVars, demoVars>>
    /\ UNCHANGED <<bpc, cur, nCalls, notifyPending, notifyValue, notifySrc, elapsed,
                   mqttStatus, cause, agentQ, registry, ownDone, lastRet, prevRet, uaf>>
    /\ UNCHANGED <<nMsgs, otaEvents, dataLength, usJobIdBuffer, usJobsDocumentBuffer,
                   job, reports, xExitActionJobReceived, xDemoEncounteredError,
                   terminateRequests>>

\* The rest of either callback once prvOTAEventBufferGet has returned: with
\* a buffer, copy the payload, tag the length and call OTA_SignalEvent, whose
\* result (queued or refused) is not looked at; without one, log.
AfterGet(queued) ==
    /\ ~fault
    /\ apc = "get"
    /\ ppc[MqttAgentTask] = "get_ret"
    /\ ppc' = [ppc EXCEPT ![MqttAgentTask] = "none"]
    /\ LET pData == pFreeBuffer[MqttAgentTask]
           eventId == IF msg.cb = prvProcessIncomingJobMessageCb
                      THEN OtaAgentEventReceivedJobDocument
                      ELSE OtaAgentEventReceivedFileBlock
       IN IF pData # NULL
          THEN /\ dataLength' = [dataLength EXCEPT ![pData] = msg.payloadLength]
               /\ otaEvents' = IF queued
                               THEN Append(otaEvents, [eventId |-> eventId, pEventData |-> pData])
                               ELSE otaEvents
               /\ msg' = [msg EXCEPT !.acquired = pData, !.signals = @ + 1, !.done = TRUE]
          ELSE /\ queued
               /\ msg' = [msg EXCEPT !.done = TRUE]
               /\ UNCHANGED <<dataLength, otaEvents>>
    /\ apc' = "idle"
    /\ UNCHANGED <<bufferUsed, xBufferSemaphore, ulIndex, pFreeBuffer, pxBuffer, held>>
    /\ UNCHANGED <<bridgeVars, classVars, lifeVars, actVars, stageVars, demoVars>>
    /\ UNCHANGED <<nMsgs, usJobIdBuffer, usJobsDocumentBuffer, job, reports,
                   xExitActionJobReceived, xDemoEncounteredError, terminateRequests>>

\* prvNextJobHandler on the payload of the message.
prvNextJobHandler(payload) ==
    /\ ~fault
    /\ apc = "next_job"
    /\ IF ~payload.valid \/ payload.jobId = NoJobId
       THEN /\ apc' = "idle"
            /\ msg' = [msg EXCEPT !.done = TRUE]
            /\ UNCHANGED <<fault, usJobIdBuffer, usJobsDocumentBuffer>>
       ELSE IF ~(Len(payload.jobId) < JOBS_JOBID_MAX_LENGTH)
       THEN /\ fault' = TRUE
            /\ UNCHANGED <<apc, msg, usJobIdBuffer, usJobsDocumentBuffer>>
       ELSE /\ usJobIdBuffer' = payload.jobId
            /\ UNCHANGED fault
            /\ IF ~payload.doc.present
               THEN /\ apc' = "idle"
                    /\ msg' = [msg EXCEPT !.done = TRUE]
                    /\ UNCHANGED usJobsDocumentBuffer
               ELSE /\ usJobsDocumentBuffer' = payload.doc
                    /\ apc' = "doc"
                    /\ UNCHANGED msg
    /\ UNCHANGED <<poolVars, classVars, lifeVars, actVars, stageVars, demoVars>>
    /\ UNCHANGED <<bpc, cur, nCalls, notifyPending, notifyValue, notifySrc, elapsed,
                   mqttStatus, cause, agentQ, registry, ownDone, lastRet, prevRet, uaf>>
    /\ UNCHANGED <<nMsgs, otaEvents, dataLength, job, reports, xExitActionJobReceived,
                   xDemoEncounteredError, terminateRequests>>

\* case JOB_ACTION_EXIT: the flag, the report, then MQTTAgent_Terminate.
ExitPlanNoTerminate == [first |-> "report", report |-> "SUCCEEDED", then |-> "none"]

ExitPlan == [first |-> "report", report |-> "SUCCEEDED", then |-> "terminate"]

\* case JOB_ACTION_PRINT: the report depends on the "message" key.
PrintPlanAlwaysSucceeds(doc) ==
    [first |-> "report", report |-> "SUCCEEDED", then |-> "none"]

PrintPlan(doc) ==
    [first |-> "report",
     report |-> IF doc.hasMessage THEN "SUCCEEDED" ELSE "FAILED",
     then |-> "none"]

\* case JOB_ACTION_PUBLISH: the relay needs the "topic" and "message" keys.
PublishPlanNeedsTopicOnly(doc) ==
    IF doc.hasTopic
    THEN [first |-> "relay", report |-> "SUCCEEDED", then |-> "none"]
    ELSE [first |-> "report", report |-> "FAILED", then |-> "none"]

PublishPlan(doc) ==
    IF doc.hasTopic /\ doc.hasMessage
    THEN [first |-> "relay", report |-> "SUCCEEDED", then |-> "none"]
    ELSE [first |-> "report", report |-> "FAILED", then |-> "none"]

\* prvProcessJobDocument up to its first call: what it reports and what it
\* does before and after the report.
JobPlanReportsUnknown(doc) ==
    IF ~doc.hasAction THEN [first |-> "report", report |-> "FAILED", then |-> "none"]
    ELSE LET xActionType == prvGetAction(doc.action, Len(doc.action))
         IN CASE xActionType = JOB_ACTION_EXIT ->
                    [first |-> "report", report |-> "SUCCEEDED", then |-> "terminate"]
              [] xActionType = JOB_ACTION_PRINT ->
                    [first |-> "report",
                     report |-> IF doc.hasMessage THEN "SUCCEEDED" ELSE "FAILED",
                     then |-> "none"]
              [] xActionType = JOB_ACTION_PUBLISH ->
                    IF doc.hasTopic /\ doc.hasMessage
                    THEN [first |-> "relay", report |-> "SUCCEEDED", then |-> "none"]
                    ELSE [first |-> "report", report |-> "FAILED", then |-> "none"]
              [] OTHER -> [first |-> "report", report |-> "FAILED", then |-> "none"]

JobPlan(doc) ==
    IF ~doc.hasAction THEN [first |-> "report", report |-> "FAILED", then |-> "none"]
    ELSE LET xActionType == prvGetAction(doc.action, Len(doc.action))
         IN CASE xActionType = JOB_ACTION_EXIT -> ExitPlan
              [] xActionType = JOB_ACTION_PRINT -> PrintPlan(doc)
              [] xActionType = JOB_ACTION_PUBLISH -> PublishPlan(doc)
              [] OTHER -> [first |-> "none", report |-> "none", then |-> "none"]

prvProcessJobDocument ==
    /\ ~fault
    /\ apc = "doc"
    /\ LET plan == JobPlan(usJobsDocumentBuffer)
       IN /\ job' = [report |-> plan.report, then |-> plan.then, relay |-> "none"]
          /\ xExitActionJobReceived' =
                 IF plan.then = "terminate" THEN TRUE ELSE xExitActionJobReceived
          /\ apc' = CASE plan.first = "relay" -> "relay"
                      [] plan.first = "report" -> "send_update"
                      [] OTHER -> "idle"
          /\ msg' = IF plan.first = "none" THEN [msg EXCEPT !.done = TRUE] ELSE msg
    /\ UNCHANGED <<poolVars, bridgeVars, classVars, lifeVars, actVars, stageVars, demoVars>>
    /\ UNCHANGED <<nMsgs, otaEvents, dataLength, usJobIdBuffer, usJobsDocumentBuffer,
                   reports, xDemoEncounteredError, terminateRequests>>

\* The relay of the "publish" action: xPublishToTopic returns pdTRUE or
\* pdFALSE; pdFALSE raises the error flag.
RelayPublishFailureReportsFailed(ok) ==
    /\ ~fault
    /\ apc = "relay"
    /\ xDemoEncounteredError' = IF ok THEN xDemoEncounteredError ELSE TRUE
    /\ job' = [job EXCEPT !.relay = IF ok THEN "pdTRUE" ELSE "pdFALSE",
                          !.report = IF ok THEN @ ELSE "FAILED"]
    /\ apc' = "send_update"
    /\ UNCHANGED <<poolVars, bridgeVars, classVars, lifeVars, actVars, stageVars, demoVars>>
    /\ UNCHANGED <<msg, nMsgs, otaEvents, dataLength, usJobIdBuffer, usJobsDocumentBuffer,
                   reports, xExitActionJobReceived, terminateRequests>>

RelayPublish(ok) ==
    /\ ~fault
    /\ apc = "relay"
    /\ xDemoEncounteredError' = IF ok THEN xDemoEncounteredError ELSE TRUE
    /\ job' = [job EXCEPT !.relay = IF ok THEN "pdTRUE" ELSE "pdFALSE"]
    /\ apc' = "send_update"
    /\ UNCHANGED <<poolVars, bridgeVars, classVars, lifeVars, actVars, stageVars, demoVars>>
    /\ UNCHANGED <<msg, nMsgs, otaEvents, dataLength, usJobIdBuffer, usJobsDocumentBuffer,
                   reports, xExitActionJobReceived, terminateRequests>>

\* Entry of prvSendUpdateForJob: the topic is built (Jobs_Update succeeds for
\* an identifier below JOBS_JOBID_MAX_LENGTH) and the publish is prepared.
SendUpdateCall ==
    /\ ~fault
    /\ apc = "send_update"
    /\ nCalls < MaxCalls
    /\ bpc[MqttAgentTask] = "idle"
    /\ apc' = "in_update"
    /\ reports' = Append(reports, [jobId |-> usJobIdBuffer, status |-> job.report,
                                   topic |-> JobsUpdateTopic(usJobIdBuffer),
                                   qos |-> MQTTQoS1])
    /\ cur' = [cur EXCEPT ![MqttAgentTask] =
                 [id |-> nCalls + 1, op |-> "publish",
                  topic |-> JobsUpdateTopic(usJobIdBuffer), cb |-> NoCallback,
                  xReturnStatus |-> MQTTSuccess]]
    /\ nCalls' = nCalls + 1
    /\ mqttStatus' = [mqttStatus EXCEPT ![MqttAgentTask] = MQTTBadParameter]
    /\ cause' = [cause EXCEPT ![MqttAgentTask] = NoCause]
    /\ ownDone' = [ownDone EXCEPT ![MqttAgentTask] = "none"]
    /\ bpc' = [bpc EXCEPT ![MqttAgentTask] = "clear"]
    /\ UNCHANGED <<notifyPending, notifyValue, notifySrc, elapsed, agentQ, registry,
                   lastRet, prevRet, uaf, fault>>
    /\ UNCHANGED <<poolVars, classVars, lifeVars, actVars, stageVars, demoVars>>
    /\ UNCHANGED <<msg, nMsgs, otaEvents, dataLength, usJobIdBuffer, usJobsDocumentBuffer,
                   job, xExitActionJobReceived, xDemoEncounteredError, terminateRequests>>

\* prvSendUpdateForJob returns to prvProcessJobDocument, which for the
\* "exit" action goes on to MQTTAgent_Terminate and otherwise returns.
SendUpdateReturn ==
    /\ ~fault
    /\ apc = "in_update"
    /\ bpc[MqttAgentTask] = "ret"
    /\ lastRet' = [lastRet EXCEPT ![MqttAgentTask] =
           [op |-> "status", kind |-> cause[MqttAgentTask].kind,
            ownWake |-> cause[MqttAgentTask].src = cur[MqttAgentTask].id,
            status |-> mqttStatus[MqttAgentTask], ota |-> "none",
            waited |-> elapsed[MqttAgentTask], own |-> ownDone[MqttAgentTask],
            routed |-> TRUE]]
    /\ bpc' = [bpc EXCEPT ![MqttAgentTask] = "idle"]
    /\ cur' = [cur EXCEPT ![MqttAgentTask] = NoCall]
    /\ elapsed' = [elapsed EXCEPT ![MqttAgentTask] = 0]
    /\ mqttStatus' = [mqttStatus EXCEPT ![MqttAgentTask] = MQTTBadParameter]
    /\ cause' = [cause EXCEPT ![MqttAgentTask] = NoCause]
    /\ ownDone' = [ownDone EXCEPT ![MqttAgentTask] = "none"]
    /\ IF job.then = "terminate"
       THEN /\ apc' = "terminate"
            /\ UNCHANGED msg
       ELSE /\ apc' = "idle"
            /\ msg' = [msg EXCEPT !.done = TRUE]
    /\ job' = [job EXCEPT !.report = "none"]
    /\ UNCHANGED <<nCalls, notifyPending, notifyValue, notifySrc, agentQ, registry,
                   prevRet, uaf, fault>>
    /\ UNCHANGED <<poolVars, classVars, lifeVars, actVars, stageVars, demoVars>>
    /\ UNCHANGED <<nMsgs, otaEvents, dataLength, usJobIdBuffer, usJobsDocumentBuffer,
                   reports, xExitActionJobReceived, xDemoEncounteredError,
                   terminateRequests>>

\* MQTTAgent_Terminate, at the end of the "exit" action.
Terminate ==
    /\ ~fault
    /\ apc = "terminate"
    /\ terminateRequests' = terminateRequests + 1
    /\ job' = NoJob
    /\ msg' = [msg EXCEPT !.done = TRUE]
    /\ apc' = "idle"
    /\ UNCHANGED <<poolVars, bridgeVars, classVars, lifeVars, actVars, stageVars, demoVars>>
    /\ UNCHANGED <<nMsgs, otaEvents, dataLength, usJobIdBuffer, usJobsDocumentBuffer,
                   reports, xExitActionJobReceived, xDemoEncounteredError>>

\* The update engine has processed the event at the head of its queue and
\* calls otaAppCallback( OtaJobEventProcessed, pData ), which releases the
\* buffer.
OtaEventProcessed ==
    /\ ~fault
    /\ ppc[OtaAgentTask] = "none"
    /\ otaEvents # <<>>
    /\ pxBuffer' = [pxBuffer EXCEPT ![OtaAgentTask] = Head(otaEvents).pEventData]
    /\ ppc' = [ppc EXCEPT ![OtaAgentTask] = "free_take"]
    /\ otaEvents' = Tail(otaEvents)
    /\ UNCHANGED <<bufferUsed, xBufferSemaphore, ulIndex, pFreeBuffer, held>>
    /\ UNCHANGED <<bridgeVars, classVars, lifeVars, actVars, stageVars, demoVars>>
    /\ UNCHANGED <<apc, msg, nMsgs, dataLength, usJobIdBuffer, usJobsDocumentBuffer, job,
                   reports, xExitActionJobReceived, xDemoEncounteredError,
                   terminateRequests>>

NextInbound ==
    \/ \E cb \in Callbacks, n \in PayloadLengths, api \in JobsApis, j \in TopicJobIds :
           Deliver(cb, n, api, j)
    \/ DataEntry
    \/ JobEntry
    \/ \E queued \in BOOLEAN : AfterGet(queued)
    \/ \E payload \in Payloads : prvNextJobHandler(payload)
    \/ prvProcessJobDocument
    \/ \E ok \in BOOLEAN : RelayPublish(ok)
    \/ SendUpdateCall
    \/ StateClear(MqttAgentTask)
    \/ \E status \in EnqueueStatuses : Enqueue(MqttAgentTask, status)
    \/ Tick(MqttAgentTask)
    \/ WaitReturn(MqttAgentTask)
    \/ SendUpdateReturn
    \/ Terminate
    \/ \E c \in agentQ, code \in ReturnCodes : CompletePublish(c, code)
    \/ OtaEventProcessed
    \/ GetTake(MqttAgentTask) \/ GetScan(MqttAgentTask)
    \/ GetSet(MqttAgentTask) \/ GetGive(MqttAgentTask)
    \/ FreeTake(OtaAgentTask) \/ FreeClear(OtaAgentTask)
    \/ FreeGive(OtaAgentTask) \/ ReturnFree(OtaAgentTask)

(***************************************************************************)
(* Suspend and resume of the update engine.                                 *)
(***************************************************************************)
OtaAgentStateReady == "OtaAgentStateReady"
OtaAgentStateWaitingForJob == "OtaAgentStateWaitingForJob"
OtaAgentStateSuspended == "OtaAgentStateSuspended"
OtaAgentStateStopped == "OtaAgentStateStopped"

OtaAgentEventSuspend == "OtaAgentEventSuspend"
OtaAgentEventResume == "OtaAgentEventResume"
OtaAgentEventShutdown == "OtaAgentEventShutdown"

NoLifeCall == [fn |-> "none", entry |-> "none", requested |-> 0, delays |-> 0]

\* The engine has been initialised and its task started.
InitLife ==
    /\ otaState = OtaAgentStateReady
    /\ otaRequests = <<>>
    /\ lpc = "idle"
    /\ lcall = NoLifeCall
    /\ nLifeCalls = 0

OTA_GetState == otaState

LifeFrame == UNCHANGED <<poolVars, bridgeVars, inVars, classVars, actVars, stageVars, demoVars>>

\* The update engine's state after it has processed a lifecycle event.
OtaStateAfter(state, event) ==
    CASE event = OtaAgentEventShutdown -> OtaAgentStateStopped
      [] event = OtaAgentEventSuspend /\ state # OtaAgentStateSuspended
            -> OtaAgentStateSuspended
      [] event = OtaAgentEventResume /\ state = OtaAgentStateSuspended
            -> OtaAgentStateReady
      [] OTHER -> state

\* The update engine's task takes the next lifecycle event from its queue; it
\* has exited once the engine is stopped.
OtaAgentProcess ==
    /\ otaState # OtaAgentStateStopped
    /\ otaRequests # <<>>
    /\ otaState' = OtaStateAfter(otaState, Head(otaRequests))
    /\ otaRequests' = Tail(otaRequests)
    /\ UNCHANGED <<lpc, lcall, nLifeCalls>>
    /\ LifeFrame

\* The update engine goes on with its own work while it is not suspended.
OtaAgentStep ==
    /\ otaState \in {OtaAgentStateReady, OtaAgentStateWaitingForJob}
    /\ otaState' = IF otaState = OtaAgentStateReady
                   THEN OtaAgentStateWaitingForJob ELSE OtaAgentStateReady
    /\ UNCHANGED <<otaRequests, lpc, lcall, nLifeCalls>>
    /\ LifeFrame

\* otaAppCallback shuts the engine down after a failed activation or a
\* failed self test.
OTA_Shutdown ==
    /\ otaState # OtaAgentStateStopped
    /\ \A i \in 1 .. Len(otaRequests) : otaRequests[i] # OtaAgentEventShutdown
    /\ otaRequests' = Append(otaRequests, OtaAgentEventShutdown)
    /\ UNCHANGED <<otaState, lpc, lcall, nLifeCalls>>
    /\ LifeFrame

\* A task calls vSuspendOTACodeSigningDemo.
SuspendCall ==
    /\ lpc = "idle"
    /\ nLifeCalls < MaxLifecycleCalls
    /\ nLifeCalls' = nLifeCalls + 1
    /\ lcall' = [fn |-> "suspend", entry |-> otaState, requested |-> 0, delays |-> 0]
    /\ lpc' = "s_if1"
    /\ UNCHANGED <<otaState, otaRequests>>
    /\ LifeFrame

\* The left operand of the && of the if.
SuspendIfFirstIgnoresState ==
    /\ lpc = "s_if1"
    /\ lpc' = "s_if2"
    /\ UNCHANGED <<otaState, otaRequests, lcall, nLifeCalls>>
    /\ LifeFrame

SuspendIfFirst ==
    /\ lpc = "s_if1"
    /\ lpc' = IF OTA_GetState # OtaAgentStateSuspended THEN "s_if2" ELSE "ret"
    /\ UNCHANGED <<otaState, otaRequests, lcall, nLifeCalls>>
    /\ LifeFrame

\* The right operand of the && of the if.
SuspendIfSecond ==
    /\ lpc = "s_if2"
    /\ lpc' = IF OTA_GetState # OtaAgentStateStopped THEN "s_req" ELSE "ret"
    /\ UNCHANGED <<otaState, otaRequests, lcall, nLifeCalls>>
    /\ LifeFrame

\* OTA_Suspend sends the suspend event to the engine; the send can fail.
SuspendRequest(sent) ==
    /\ lpc = "s_req"
    /\ otaRequests' = IF sent THEN Append(otaRequests, OtaAgentEventSuspend)
                      ELSE otaRequests
    /\ lcall' = [lcall EXCEPT !.requested = @ + 1]
    /\ lpc' = "s_loop1"
    /\ UNCHANGED <<otaState, nLifeCalls>>
    /\ LifeFrame

\* The left operand of the && of the while.
SuspendLoopFirst ==
    /\ lpc = "s_loop1"
    /\ lpc' = IF OTA_GetState # OtaAgentStateSuspended THEN "s_loop2" ELSE "ret"
    /\ UNCHANGED <<otaState, otaRequests, lcall, nLifeCalls>>
    /\ LifeFrame

\* The right operand of the && of the while, and vTaskDelay in its body.
SuspendLoopSecond ==
    /\ lpc = "s_loop2"
    /\ IF OTA_GetState # OtaAgentStateStopped
       THEN /\ lpc' = "s_loop1"
            /\ lcall' = [lcall EXCEPT !.delays = 1]
       ELSE /\ lpc' = "ret"
            /\ UNCHANGED lcall
    /\ UNCHANGED <<otaState, otaRequests, nLifeCalls>>
    /\ LifeFrame

\* A task calls vResumeOTACodeSigningDemo.
ResumeCall ==
    /\ lpc = "idle"
    /\ nLifeCalls < MaxLifecycleCalls
    /\ nLifeCalls' = nLifeCalls + 1
    /\ lcall' = [fn |-> "resume", entry |-> otaState, requested |-> 0, delays |-> 0]
    /\ lpc' = "r_if"
    /\ UNCHANGED <<otaState, otaRequests>>
    /\ LifeFrame

\* The condition of the if.
ResumeIf ==
    /\ lpc = "r_if"
    /\ lpc' = IF OTA_GetState = OtaAgentStateSuspended THEN "r_req" ELSE "ret"
    /\ UNCHANGED <<otaState, otaRequests, lcall, nLifeCalls>>
    /\ LifeFrame

\* OTA_Resume sends the resume event to the engine; the send can fail.
ResumeRequest(sent) ==
    /\ lpc = "r_req"
    /\ otaRequests' = IF sent THEN Append(otaRequests, OtaAgentEventResume)
                      ELSE otaRequests
    /\ lcall' = [lcall EXCEPT !.requested = @ + 1]
    /\ lpc' = "r_loop"
    /\ UNCHANGED <<otaState, nLifeCalls>>
    /\ LifeFrame

\* The condition of the while, and vTaskDelay in its body.
ResumeLoop ==
    /\ lpc = "r_loop"
    /\ IF OTA_GetState = OtaAgentStateSuspended
       THEN /\ lpc' = "r_loop"
            /\ lcall' = [lcall EXCEPT !.delays = 1]
       ELSE /\ lpc' = "ret"
            /\ UNCHANGED lcall
    /\ UNCHANGED <<otaState, otaRequests, nLifeCalls>>
    /\ LifeFrame

\* Either function returns to its caller.
LifeReturn ==
    /\ lpc = "ret"
    /\ lpc' = "idle"
    /\ UNCHANGED <<otaState, otaRequests, lcall, nLifeCalls>>
    /\ LifeFrame

NextLifecycle ==
    \/ SuspendCall \/ SuspendIfFirst \/ SuspendIfSecond
    \/ \E sent \in BOOLEAN : SuspendRequest(sent)
    \/ SuspendLoopFirst \/ SuspendLoopSecond
    \/ ResumeCall \/ ResumeIf
    \/ \E sent \in BOOLEAN : ResumeRequest(sent)
    \/ ResumeLoop
    \/ LifeReturn
    \/ OtaAgentProcess \/ OtaAgentStep \/ OTA_Shutdown

(***************************************************************************)
(* prvGetAction on its own: applied to the value of the "action" key where *)
(* it lies in the payload, followed by the rest of the payload.             *)
(***************************************************************************)
\* The value of xAction before the call: no JobActionType value.
NotClassified == "NotClassified"

\* The prefixes of s, the empty one and s itself included.
PrefixesOf(s) == {SubSeq(s, 1, n) : n \in 0 .. Len(s)}

\* Values of the "action" key: the keywords, what they begin with, what
\* begins with them, and strings that share nothing with them.
ActionValues ==
    PrefixesOf(ActionPrint) \cup PrefixesOf(ActionPublish) \cup PrefixesOf(ActionExit)
    \cup {ActionBogus,
          ActionPrint \o <<"e", "r">>, ActionExit \o <<"s">>, ActionPublish \o <<"e", "d">>,
          <<"x">> \o ActionPrint, <<"P", "r", "i", "n", "t">>, <<"r", "i", "n", "t">>,
          <<"p", "r", "u", "n", "t">>, <<"e", "x", "i", "s">>}

\* What follows the value in the payload: the closing quote and more JSON.
PayloadRests == {<<"\"">>, <<"\"", "}">>, <<"\"", ",", "\"", "m">>, <<"\"", " ", "}">>}

InitAct ==
    /\ pcActionValue = ActionPrint \o <<"\"">>
    /\ xActionValueLength = Len(ActionPrint)
    /\ xAction = NotClassified

(***************************************************************************)
(* prvNextJobHandler on its own, with the lengths of what it copies.        *)
(***************************************************************************)
\* The size of usJobsDocumentBuffer, at the scale of the model.
JobsDocumentBufferSize == 2

\* Number of payloads handled in one behaviour.
MaxStaged == 2

NoStagePayload == [valid |-> FALSE, hasJobId |-> FALSE, ulJobIdLength |-> 0,
                   hasDoc |-> FALSE, ulJobDocLength |-> 0]

\* Payloads of next-job messages: invalid JSON, no job identifier, an
\* identifier up to and beyond the limit, no document, a document that fits
\* the staging buffer or not.
StagePayloads ==
    {NoStagePayload}
    \cup {[valid |-> TRUE, hasJobId |-> FALSE, ulJobIdLength |-> 0,
           hasDoc |-> d, ulJobDocLength |-> IF d THEN 1 ELSE 0] : d \in BOOLEAN}
    \cup {[valid |-> TRUE, hasJobId |-> TRUE, ulJobIdLength |-> n,
           hasDoc |-> FALSE, ulJobDocLength |-> 0] :
              n \in {1, JOBS_JOBID_MAX_LENGTH - 1, JOBS_JOBID_MAX_LENGTH,
                     JOBS_JOBID_MAX_LENGTH + 1}}
    \cup {[valid |-> TRUE, hasJobId |-> TRUE, ulJobIdLength |-> n,
           hasDoc |-> TRUE, ulJobDocLength |-> m] :
              n \in {1, JOBS_JOBID_MAX_LENGTH - 1, JOBS_JOBID_MAX_LENGTH,
                     JOBS_JOBID_MAX_LENGTH + 1},
              m \in 1 .. (JobsDocumentBufferSize + 1)}

InitStage ==
    /\ stagePc = "idle"
    /\ stagePayload = NoStagePayload
    /\ stagedJobIdLength = 0
    /\ stagedDocLength = 0
    /\ stageOverrun = FALSE
    /\ stageDispatched = FALSE
    /\ stageFault = FALSE
    /\ nStaged = 0

StageFrame == UNCHANGED <<poolVars, bridgeVars, inVars, classVars, lifeVars, actVars, demoVars>>

\* prvNextJobHandler is called with a payload: JSON_Validate and the search
\* for the job identifier.
StageValidate(payload) ==
    /\ ~stageFault
    /\ stagePc = "idle"
    /\ nStaged < MaxStaged
    /\ nStaged' = nStaged + 1
    /\ stagePayload' = payload
    /\ stageDispatched' = FALSE
    /\ stagePc' = IF payload.valid /\ payload.hasJobId THEN "job_id" ELSE "idle"
    /\ UNCHANGED <<stagedJobIdLength, stagedDocLength, stageOverrun, stageFault>>
    /\ StageFrame

\* The assertion on the length of the identifier, its memcpy to
\* usJobIdBuffer, and the search for the document.
StageJobId ==
    /\ ~stageFault
    /\ stagePc = "job_id"
    /\ IF stagePayload.ulJobIdLength < JOBS_JOBID_MAX_LENGTH
       THEN /\ stagedJobIdLength' = stagePayload.ulJobIdLength
            /\ stagePc' = IF stagePayload.hasDoc THEN "doc" ELSE "idle"
            /\ UNCHANGED stageFault
       ELSE /\ stageFault' = TRUE
            /\ UNCHANGED <<stagedJobIdLength, stagePc>>
    /\ UNCHANGED <<stagePayload, stagedDocLength, stageOverrun, stageDispatched, nStaged>>
    /\ StageFrame

\* The memcpy of the document to usJobsDocumentBuffer and the call of
\* prvProcessJobDocument.  No length is compared with the size of the buffer.
StageDocument ==
    /\ ~stageFault
    /\ stagePc = "doc"
    /\ stagedDocLength' = stagePayload.ulJobDocLength
    /\ stageOverrun' = (stageOverrun \/ stagePayload.ulJobDocLength > JobsDocumentBufferSize)
    /\ stageDispatched' = TRUE
    /\ stagePc' = "idle"
    /\ UNCHANGED <<stagePayload, stagedJobIdLength, stageFault, nStaged>>
    /\ StageFrame

NextStaging ==
    \/ \E payload \in StagePayloads : StageValidate(payload)
    \/ StageJobId
    \/ StageDocument

(***************************************************************************)
(* The lifecycle callback otaAppCallback and the loop of prvOTADemoTask.    *)
(***************************************************************************)
OtaJobEventActivate == "OtaJobEventActivate"
OtaJobEventFail == "OtaJobEventFail"
OtaJobEventStartTest == "OtaJobEventStartTest"
OtaJobEventSelfTestFailed == "OtaJobEventSelfTestFailed"
OtaJobEventUpdateComplete == "OtaJobEventUpdateComplete"

\* The events the callback is given here; OtaJobEventProcessed, which
\* releases a buffer, is the action OtaEventProcessed.  The last one has no
\* case of its own in the switch.
AppEvents == {OtaJobEventActivate, OtaJobEventFail, OtaJobEventStartTest,
              OtaJobEventSelfTestFailed, OtaJobEventUpdateComplete}

\* Number of events given to otaAppCallback in one behaviour.
MaxAppEvents == 3

NoAppEvent == [event |-> "none", returned |-> FALSE, shutdown |-> FALSE]

InitDemo ==
    /\ dpc = "check"
    /\ appEvent = NoAppEvent
    /\ nAppEvents = 0
    /\ deviceReset = FALSE
    /\ statsReported = FALSE

DemoFrame == UNCHANGED <<poolVars, bridgeVars, inVars, classVars, actVars, stageVars>>

\* The cases of the switch that call OTA_Shutdown( 0 ): the activation case,
\* reached with OTA_ActivateNewImage returned, and the self-test-failed case.
AppCallbackShutsDownOnActivateOnly(event, returned) ==
    event = OtaJobEventActivate /\ returned

AppCallbackShutsDown(event, returned) ==
    \/ event = OtaJobEventActivate /\ returned
    \/ event = OtaJobEventSelfTestFailed

\* The update engine's task calls otaAppCallback( event, pData ).
\* OTA_ActivateNewImage either resets the device, which starts again from
\* its initial state, or returns.
otaAppCallback(event, returned) ==
    /\ otaState # OtaAgentStateStopped
    /\ nAppEvents < MaxAppEvents
    /\ nAppEvents' = nAppEvents + 1
    /\ appEvent' = [event |-> event, returned |-> returned,
                    shutdown |-> AppCallbackShutsDown(event, returned)]
    /\ IF event = OtaJobEventActivate /\ ~returned
       THEN /\ deviceReset' = TRUE
            /\ otaState' = OtaAgentStateReady
            /\ otaRequests' = <<>>
            /\ dpc' = "check"
            /\ statsReported' = FALSE
       ELSE /\ otaRequests' = IF AppCallbackShutsDown(event, returned)
                              THEN Append(otaRequests, OtaAgentEventShutdown)
                              ELSE otaRequests
            /\ UNCHANGED <<otaState, dpc, deviceReset, statsReported>>
    /\ UNCHANGED <<lpc, lcall, nLifeCalls>>
    /\ DemoFrame

\* The condition of the while of prvOTADemoTask.
DemoCheck ==
    /\ dpc = "check"
    /\ dpc' = IF OTA_GetState # OtaAgentStateStopped THEN "stats" ELSE "exited"
    /\ UNCHANGED <<appEvent, nAppEvents, deviceReset, statsReported, lifeVars>>
    /\ DemoFrame

\* The body of the while: OTA_GetStatistics, the log line and vTaskDelay.
DemoStatistics ==
    /\ dpc = "stats"
    /\ dpc' = "check"
    /\ statsReported' = TRUE
    /\ UNCHANGED <<appEvent, nAppEvents, deviceReset, lifeVars>>
    /\ DemoFrame

NextShutdown ==
    \/ \E event \in AppEvents, returned \in BOOLEAN : otaAppCallback(event, returned)
    \/ DemoCheck
    \/ DemoStatistics
    \/ OtaAgentProcess
    \/ OtaAgentStep

(***************************************************************************)
(* Topic classification on its own: getOtaMessageType applied to a topic    *)
(* that lies in a receive buffer, followed by whatever the buffer holds     *)
(* after it.                                                                 *)
(***************************************************************************)
\* The value of retMesageType before the call: no OtaMessageType_t value.
NotCalled == OtaNumOfMessageType + 1

\* A prefix that differs from OTA_TOPIC_PREFIX in one character.
WrongPrefix == <<"$", "a", "w", "s", "/", "t", "h", "i", "n", "g", "z", "/">>
PrefixInputs == {OTA_TOPIC_PREFIX, WrongPrefix}
\* Thing name segments: empty, the name, strict prefixes, extensions, others.
NameInputs == {<<>>, <<"d">>, <<"d", "v">>, <<"d", "v", "x">>, <<"x", "v">>, <<"d", "x">>}
\* Message type segments: empty, the two keywords, strict prefixes of them,
\* extensions of them, others.
TypeInputs == {<<>>, <<"j">>, <<"j", "o", "b">>, OTA_TOPIC_JOBS, OTA_TOPIC_JOBS \o <<"x">>,
               <<"s">>, <<"s", "t", "r", "e", "a", "m">>, OTA_TOPIC_STREAM,
               OTA_TOPIC_STREAM \o <<"x">>, <<"x">>}
TailInputs == {<<>>, <<"/">>, <<"/", "#">>}

\* What the buffer holds from the start of the topic on.
TopicBuffers ==
    {pre \o name \o <<"/">> \o type \o tail :
         pre \in PrefixInputs, name \in NameInputs, type \in TypeInputs, tail \in TailInputs}

InitClass ==
    /\ pTopicFilter = TopicJobs
    /\ topicFilterLength = Len(TopicJobs)
    /\ retMesageType = NotCalled

\* Any topic of any length inside any of the buffers.
InitTopics ==
    /\ InitPool /\ InitBridge /\ InitInbound /\ InitLife
    /\ InitAct /\ InitStage /\ InitDemo
    /\ pTopicFilter \in TopicBuffers
    /\ topicFilterLength \in 0 .. Len(pTopicFilter)
    /\ retMesageType = NotCalled

Classify ==
    /\ retMesageType = NotCalled
    /\ retMesageType' = getOtaMessageType(pTopicFilter, topicFilterLength)
    /\ UNCHANGED <<pTopicFilter, topicFilterLength>>
    /\ UNCHANGED <<poolVars, bridgeVars, inVars, lifeVars, actVars, stageVars, demoVars>>

NextClassify == Classify

Init ==
    /\ InitPool /\ InitBridge /\ InitInbound /\ InitClass /\ InitLife
    /\ InitAct /\ InitStage /\ InitDemo

\* Any action value of a job document, inside any payload.
InitActions ==
    /\ InitPool /\ InitBridge /\ InitInbound /\ InitClass /\ InitLife
    /\ InitStage /\ InitDemo
    /\ \E value \in ActionValues, rest \in PayloadRests :
          /\ pcActionValue = value \o rest
          /\ xActionValueLength = Len(value)
    /\ xAction = NotClassified

GetAction ==
    /\ xAction = NotClassified
    /\ xAction' = prvGetAction(pcActionValue, xActionValueLength)
    /\ UNCHANGED <<pcActionValue, xActionValueLength>>
    /\ UNCHANGED <<poolVars, bridgeVars, inVars, classVars, lifeVars, stageVars, demoVars>>

NextAction == GetAction

SpecAction == InitActions /\ [][NextAction]_vars

NextPool ==
    \E t \in Tasks :
        \/ CallGet(t) \/ ReturnGet(t) \/ CallFree(t) \/ ReturnFree(t)
        \/ GetTake(t) \/ GetScan(t) \/ GetSet(t) \/ GetGive(t)
        \/ FreeTake(t) \/ FreeClear(t) \/ FreeGive(t)

SpecPool == Init /\ [][NextPool]_vars

\* The pool with callers that may also release a handle twice.
NextPoolDoubleRelease ==
    \/ NextPool
    \/ \E t \in Tasks : CallFreeAgain(t)

SpecPoolDoubleRelease == Init /\ [][NextPoolDoubleRelease]_vars

SpecBridge == Init /\ [][NextBridge]_vars

\* prvMQTTSubscribe on its own, called with the two filters of the update
\* engine and with a filter of another message type of the same thing.
TopicOther == OTA_TOPIC_PREFIX \o democonfigCLIENT_IDENTIFIER \o <<"/", "s", "h", "a", "d", "o", "w">>
SubscribeFilters == Topics \cup {TopicOther}

NextSubscribe ==
    \/ \E t \in BridgeCallers, topic \in SubscribeFilters : BridgeCall(t, "subscribe", topic)
    \/ \E t \in BridgeCallers : StateClear(t)
    \/ \E t \in BridgeCallers, status \in EnqueueStatuses : Enqueue(t, status)
    \/ \E t \in BridgeCallers : Tick(t)
    \/ \E t \in BridgeCallers : WaitReturn(t)
    \/ \E t \in BridgeCallers : Return(t)
    \/ \E c \in agentQ, code \in ReturnCodes : CompleteSubscription(c, code)
    \/ \E c \in agentQ, code \in ReturnCodes : CompleteDangling(c, code)

SpecSubscribe == Init /\ [][NextSubscribe]_vars

SpecInbound == Init /\ [][NextInbound]_vars

\* The data path alone: blocks arrive on the stream topic while the update
\* engine processes the events it was sent and releases their buffers.
NextData ==
    \/ \E n \in PayloadLengths : DeliverBlock(n)
    \/ DataEntry
    \/ \E queued \in BOOLEAN : AfterGet(queued)
    \/ OtaEventProcessed
    \/ GetTake(MqttAgentTask) \/ GetScan(MqttAgentTask)
    \/ GetSet(MqttAgentTask) \/ GetGive(MqttAgentTask)
    \/ FreeTake(OtaAgentTask) \/ FreeClear(OtaAgentTask)
    \/ FreeGive(OtaAgentTask) \/ ReturnFree(OtaAgentTask)

SpecData == Init /\ [][NextData]_vars

SpecLifecycle == Init /\ [][NextLifecycle]_vars

\* A job message of the application that asks to print a message.
PrintJobPayload ==
    [valid |-> TRUE, jobId |-> CustomJobId,
     doc |-> [present |-> TRUE, hasAction |-> TRUE, action |-> ActionPrint,
              hasMessage |-> TRUE, hasTopic |-> FALSE]]

\* The two tasks of the program that issue commands on the one connection,
\* at the same time: the update engine calls the MQTT interface from its
\* task while job messages of the application arrive and the job action
\* dispatcher publishes their status from the MQTT agent task.
NextConcurrent ==
    \/ \E op \in Ops, topic \in Topics : BridgeCall(OtaAgentTask, op, topic)
    \/ \E t \in Tasks : StateClear(t)
    \/ \E t \in Tasks, status \in EnqueueStatuses : Enqueue(t, status)
    \/ \E t \in Tasks : Tick(t)
    \/ \E t \in Tasks : WaitReturn(t)
    \/ Return(OtaAgentTask)
    \/ \E c \in agentQ, code \in ReturnCodes : CompletePublish(c, code)
    \/ \E c \in agentQ, code \in ReturnCodes : CompleteSubscription(c, code)
    \/ \E c \in agentQ, code \in ReturnCodes : CompleteDangling(c, code)
    \/ Deliver(prvProcessIncomingJobMessageCb, 1, JobsDescribeSuccess, CustomJobId)
    \/ JobEntry
    \/ prvNextJobHandler(PrintJobPayload)
    \/ prvProcessJobDocument
    \/ SendUpdateCall
    \/ SendUpdateReturn

SpecConcurrent == Init /\ [][NextConcurrent]_vars

SpecStaging == Init /\ [][NextStaging]_vars

\* The scheduler runs prvOTADemoTask again after each vTaskDelay.
SpecShutdown ==
    /\ Init
    /\ [][NextShutdown]_vars
    /\ WF_vars(DemoCheck)
    /\ WF_vars(DemoStatistics)

SpecClassify == InitTopics /\ [][NextClassify]_vars

(***************************************************************************)
(* Claims about the command bridge, checked under SpecBridge.               *)
(***************************************************************************)
ClassOf(r) == ErrorClass(r.kind, r.status)

\* C1: every return of a call whose enqueue was accepted and that was woken
\* is caused by the completion callback of that same call: no call is woken
\* by, or returns the code of, the completion of another call.
C1_WokenOnlyByOwnCompletion ==
    \A t \in Tasks : lastRet[t].kind = "wake" => lastRet[t].ownWake

\* C2: the completion callback of a subscribe or unsubscribe never uses a
\* context whose issuing call has already returned.
C2_ContextValidWhenCallbackFires == ~uaf

\* C5: whenever a subscribe returns success the registry maps the filter to
\* the callback that was passed, and whenever an unsubscribe returns success
\* the registry holds no mapping for the filter.  Stated for the calls that
\* return success because their own completion callback reported it.
C5_SuccessMeansRouted ==
    \A t \in Tasks :
        (/\ lastRet[t].op \in {"subscribe", "unsubscribe"}
         /\ lastRet[t].ota = OtaMqttSuccess
         /\ lastRet[t].ownWake
         /\ lastRet[t].own = MQTTSuccess)
            => lastRet[t].routed

\* C7: a call whose enqueue was accepted does not return before its own
\* completion callback has fired or the timeout has elapsed, and a call
\* whose completion callback has not fired returns the timeout result after
\* the full bound.
C7_NoReturnBeforeCompletionOrTimeout ==
    \A t \in Tasks :
        lastRet[t].kind \in {"wake", "timeout"} =>
            /\ lastRet[t].own # "none" \/ lastRet[t].waited = TimeoutTicks
            /\ lastRet[t].own = "none" =>
                   /\ lastRet[t].kind = "timeout"
                   /\ lastRet[t].ota = OtaFailure(lastRet[t].op)

\* C8 as stated: for each of the three operations the status synthesized on
\* timeout is MQTTRecvFailed.
C8_TimeoutIsRecvFailed ==
    \A t \in Tasks : lastRet[t].kind = "timeout" => lastRet[t].status = MQTTRecvFailed

\* C8 as amended: the status synthesized on timeout is MQTTRecvFailed for
\* subscribe and unsubscribe, and MQTTSendFailed for publish.
C8_TimeoutStatusPerOperation ==
    \A t \in Tasks :
        lastRet[t].kind = "timeout" =>
            /\ lastRet[t].op = "publish" => lastRet[t].status = MQTTSendFailed
            /\ lastRet[t].op \in {"subscribe", "unsubscribe"} =>
                   lastRet[t].status = MQTTRecvFailed

\* A publish has timed out right after a subscribe or unsubscribe timed out.
C8_Witness ==
    /\ lastRet[OtaAgentTask].kind = "timeout"
    /\ lastRet[OtaAgentTask].op = "publish"
    /\ prevRet[OtaAgentTask].kind = "timeout"
    /\ prevRet[OtaAgentTask].op \in {"subscribe", "unsubscribe"}

\* C9 as stated: enqueue rejection, a failure reported by the completion
\* callback and timeout each yield a different result of the same operation.
C9_ErrorClassesHaveDistinctResults ==
    \A t \in Tasks :
        (/\ prevRet[t].op # "none"
         /\ lastRet[t].op = prevRet[t].op
         /\ ClassOf(lastRet[t]) # ClassOf(prevRet[t]))
            => lastRet[t].ota # prevRet[t].ota

\* C9 as amended: the result tells failure from success only.  A call that
\* was rejected at enqueue, that timed out, or whose wait received a
\* non-success code returns the one failure result of its operation; a call
\* whose wait received the success code returns success.
C9_OneFailureResultPerOperation ==
    \A t \in Tasks :
        lastRet[t].op # "none" =>
            /\ ClassOf(lastRet[t]) \in {"rejected", "completion-failure", "timeout"}
                   => lastRet[t].ota = OtaFailure(lastRet[t].op)
            /\ ClassOf(lastRet[t]) = "success" => lastRet[t].ota = OtaMqttSuccess

\* Two calls of the same operation have failed in different error classes,
\* one of them by timeout.
C9_Witness ==
    /\ lastRet[OtaAgentTask].op = prevRet[OtaAgentTask].op
    /\ ClassOf(lastRet[OtaAgentTask]) = "timeout"
    /\ ClassOf(prevRet[OtaAgentTask]) \in {"rejected", "completion-failure"}

\* C10: a call returns success only if its enqueue was accepted and its own
\* completion callback reported success.
C10_SuccessOnlyOnOwnSuccess ==
    \A t \in Tasks :
        lastRet[t].ota = OtaMqttSuccess =>
            /\ lastRet[t].kind = "wake"
            /\ lastRet[t].own = MQTTSuccess

(***************************************************************************)
(* Claims about the receive callbacks, checked under SpecInbound.           *)
(***************************************************************************)
\* The MQTT agent task is suspended in xTaskNotifyWait with no notification
\* pending.
AgentBlockedOnNotification ==
    bpc[MqttAgentTask] = "wait" /\ ~notifyPending[MqttAgentTask]

\* The MQTT agent task is in xSemaphoreTake while another task holds the
\* pool mutex.
AgentBlockedOnMutex ==
    ppc[MqttAgentTask] = "get_take" /\ xBufferSemaphore # NoHolder

\* C4: neither receive callback ever suspends the MQTT agent task: it never
\* waits on a notification, a timeout or a lock.
C4_ReceiveCallbacksNeverBlock ==
    apc # "idle" => (~AgentBlockedOnNotification /\ ~AgentBlockedOnMutex)

\* C6: a job message whose job identifier begins with AFR_OTA, received
\* while a pool buffer is free, ends with one buffer acquired and tagged
\* with the payload length, exactly one event signalled to the update
\* engine, and the job action dispatcher not invoked.
C6_OtaJobMessageIsQueued ==
    (/\ msg.cb = prvProcessIncomingJobMessageCb
     /\ msg.done
     /\ strncmp(msg.jobId, AFR_OTA, Len(AFR_OTA)) = 0
     /\ msg.freeAtEntry)
        => /\ msg.acquired # NULL
           /\ msg.signals = 1
           /\ ~msg.dispatched

(***************************************************************************)
(* C3: under any interleaving of acquire and release calls from different   *)
(* tasks, a slot handed out by acquire has at most one holder until it is   *)
(* released, and a slot that is held is marked used.                         *)
(***************************************************************************)
Holders(s) == {t \in Tasks : s \in held[t] \/ (ppc[t] = "get_ret" /\ pFreeBuffer[t] = s)}

C3_OneHolderPerSlot ==
    \A s \in Slots :
        /\ Cardinality(Holders(s)) <= 1
        /\ (Holders(s) # {} => bufferUsed[s])

\* Both tasks hold a slot at once, each its own: two acquires ran
\* concurrently with no release in between.
C3_Witness ==
    /\ held[OtaAgentTask] # {}
    /\ held[MqttAgentTask] # {}
    /\ ppc[OtaAgentTask] = "none"
    /\ ppc[MqttAgentTask] = "none"

(***************************************************************************)
(* Claims about topic classification, checked under SpecClassify.           *)
(***************************************************************************)
\* The topic as its sender wrote it: the first topicFilterLength characters.
Topic == SubSeq(pTopicFilter, 1, topicFilterLength)

Classified == retMesageType # NotCalled

Unrecognized == OtaNumOfMessageType

HasPrefix(topic) ==
    /\ Len(topic) >= Len(OTA_TOPIC_PREFIX)
    /\ SubSeq(topic, 1, Len(OTA_TOPIC_PREFIX)) = OTA_TOPIC_PREFIX

\* The path segment of topic that starts at (1-based) position from: the
\* characters up to the next '/' or to the end of the topic.
SegmentOf(topic, from) ==
    LET last == CHOOSE k \in (from - 1) .. Len(topic) :
                    /\ \A i \in from .. k : topic[i] # "/"
                    /\ (k = Len(topic) \/ topic[k + 1] = "/")
    IN SubSeq(topic, from, last)

NameSegment(topic) == SegmentOf(topic, Len(OTA_TOPIC_PREFIX) + 1)

\* The topic goes on after the thing name with a '/'.
HasTypeSegment(topic) ==
    Len(topic) > Len(OTA_TOPIC_PREFIX) + Len(NameSegment(topic))

TypeSegment(topic) ==
    IF HasTypeSegment(topic)
    THEN SegmentOf(topic, Len(OTA_TOPIC_PREFIX) + Len(NameSegment(topic)) + 2)
    ELSE <<>>

NameMatches(topic) == HasPrefix(topic) /\ NameSegment(topic) = democonfigCLIENT_IDENTIFIER

\* C15: getOtaMessageType returns a recognized category only when the
\* segment after the prefix equals the thing name exactly; a segment that
\* differs from it in content or in length, a strict prefix of it included,
\* gives Unrecognized.
C15_RecognizedOnlyForOwnName ==
    (Classified /\ retMesageType # Unrecognized) => NameMatches(Topic)

\* C16: for a topic with a matching prefix and thing name the result is the
\* job category exactly when the type segment is "jobs", the stream category
\* exactly when it is "streams", and Unrecognized for every other segment,
\* strict prefixes of a keyword included.
C16_CategoryByExactKeyword ==
    (Classified /\ NameMatches(Topic)) =>
        /\ (retMesageType = OtaMessageTypeJob <=> TypeSegment(Topic) = OTA_TOPIC_JOBS)
        /\ (retMesageType = OtaMessageTypeStream <=> TypeSegment(Topic) = OTA_TOPIC_STREAM)
        /\ (TypeSegment(Topic) \notin {OTA_TOPIC_JOBS, OTA_TOPIC_STREAM}
                => retMesageType = Unrecognized)

\* C17: a topic that does not begin with "$aws/things/" is classified as
\* Unrecognized.
C17_NoPrefixIsUnrecognized ==
    (Classified /\ ~HasPrefix(Topic)) => retMesageType = Unrecognized

\* A topic as long as a recognized one, with the thing name and the keyword
\* "jobs" in place, whose prefix differs in one character, was classified.
C17_Witness ==
    /\ Classified
    /\ ~HasPrefix(Topic)
    /\ topicFilterLength >= Len(WrongPrefix)
    /\ SubSeq(Topic, 1, Len(WrongPrefix)) = WrongPrefix
    /\ NameSegment(Topic) = democonfigCLIENT_IDENTIFIER
    /\ TypeSegment(Topic) = OTA_TOPIC_JOBS

\* The edge cases of C18: the topic is shorter than the prefix, or ends
\* right after the thing name, or has an empty name or type segment.
IsEdgeTopic(topic) ==
    \/ Len(topic) < Len(OTA_TOPIC_PREFIX)
    \/ /\ HasPrefix(topic)
       /\ \/ NameSegment(topic) = <<>>
          \/ ~HasTypeSegment(topic)
          \/ TypeSegment(topic) = <<>>

\* C18: a topic shorter than the prefix, a topic that ends right after the
\* thing name and a topic with an empty name or type segment are classified
\* as Unrecognized, and while it extracts and compares the segments
\* getOtaMessageType reads no index at or beyond topicFilterLength.
C18_EdgeTopicsUnrecognizedNoOverread ==
    Classified =>
        /\ (IsEdgeTopic(Topic) => retMesageType = Unrecognized)
        /\ \A i \in SegmentReads(pTopicFilter, topicFilterLength) : i < topicFilterLength

\* A topic that ends right after the thing name was classified, while the
\* buffer goes on with "/jobs": reading on would have found a keyword.
C18_Witness ==
    /\ Classified
    /\ Topic = OTA_TOPIC_PREFIX \o democonfigCLIENT_IDENTIFIER
    /\ Len(pTopicFilter) >= topicFilterLength + 1 + Len(OTA_TOPIC_JOBS)
    /\ SubSeq(pTopicFilter, topicFilterLength + 1, topicFilterLength + 1 + Len(OTA_TOPIC_JOBS))
           = <<"/">> \o OTA_TOPIC_JOBS
    /\ SegmentReads(pTopicFilter, topicFilterLength) # {}

(***************************************************************************)
(* Further claims about the buffer pool.                                    *)
(***************************************************************************)
AllUsed == \A s \in Slots : bufferUsed[s]

\* A task inside prvOTAEventBufferGet that holds the mutex and has finished
\* its scan without a buffer.
ScanFoundNone(t) == ppc[t] = "get_give" /\ pFreeBuffer[t] = NULL

\* C12: acquire returns none exactly when every slot is marked used, a
\* failed acquire changes no slot, and a successful one takes the first free
\* slot; so N+1 acquires in a row with no release give N distinct slots and
\* then none.
C12_NoneExactlyWhenFull ==
    /\ [](\A t \in Tasks :
            /\ ScanFoundNone(t) => AllUsed
            /\ (ppc[t] = "get_give" /\ pFreeBuffer[t] # NULL) => bufferUsed[pFreeBuffer[t]]
            /\ (ppc[t] = "get_ret" /\ pFreeBuffer[t] = NULL /\ held[t] = {}
                   /\ \A u \in Tasks \ {t} : ppc[u] = "none" /\ pxBuffer[u] = NULL)
                 => Cardinality(UNION {held[u] : u \in Tasks}) = NumBuffers)
    /\ [][\A t \in Tasks :
            /\ (ppc[t] = "get_scan" /\ ppc'[t] = "get_give")
                 => AllUsed /\ pFreeBuffer'[t] = NULL /\ bufferUsed' = bufferUsed
            /\ (ppc[t] = "get_scan" /\ ppc'[t] = "get_set")
                 => /\ ~bufferUsed[ulIndex[t]]
                    /\ \A s \in Slots : s < ulIndex[t] => bufferUsed[s]
            /\ (ppc[t] = "get_set" /\ ppc'[t] = "get_give")
                 => /\ pFreeBuffer'[t] = ulIndex[t]
                    /\ bufferUsed' = [bufferUsed EXCEPT ![ulIndex[t]] = TRUE]
       ]_vars

\* One task has acquired every slot of the pool and released none, and its
\* next acquire has returned none.
C12_Witness ==
    \E t \in Tasks :
        /\ held[t] = Slots
        /\ ppc[t] = "get_ret"
        /\ pFreeBuffer[t] = NULL
        /\ AllUsed

\* A slot is accounted for: a task holds it, is being handed it, or is
\* about to clear it.
Owned(s) ==
    \E t \in Tasks :
        \/ s \in held[t]
        \/ ppc[t] \in {"get_give", "get_ret"} /\ pFreeBuffer[t] = s
        \/ ppc[t] \in {"free_take", "free_clear"} /\ pxBuffer[t] = s

\* C13: release clears the used flag of the released slot and of no other,
\* and the slot is then acquirable: it stays free until an acquire takes it,
\* and an acquire that runs while a slot is free does not return none.
C13_ReleasedSlotIsAcquirable ==
    /\ [][\A t \in Tasks :
            (ppc[t] = "free_clear" /\ ppc'[t] = "free_give")
                => /\ bufferUsed[pxBuffer[t]]
                   /\ bufferUsed' = [bufferUsed EXCEPT ![pxBuffer[t]] = FALSE]
       ]_vars
    /\ [](\A s \in Slots : bufferUsed[s] => Owned(s))
    /\ [](\A t \in Tasks : ppc[t] = "free_give" => ~bufferUsed[pxBuffer[t]])
    /\ [](\A t \in Tasks : ScanFoundNone(t) => \A s \in Slots : Owned(s))

\* The slot one task has released has been handed to the other task by an
\* acquire that followed the release, while the other slot stayed in use.
C13_Witness ==
    \E t \in Tasks, u \in Tasks :
        /\ t # u
        /\ ppc[t] = "free_ret"
        /\ ppc[u] = "get_ret"
        /\ pFreeBuffer[u] = pxBuffer[t]
        /\ \E s \in Slots : s # pxBuffer[t] /\ bufferUsed[s] /\ s \in held[u]

\* C14: a release of a slot whose used flag is already false stops on an
\* assertion; it never completes silently.
C14_ReleaseOfFreeSlotFaults ==
    [][\A t \in Tasks :
          (ppc[t] = "free_clear" /\ ~bufferUsed[pxBuffer[t]] /\ ppc'[t] = "free_give")
              => fault'
      ]_vars

(***************************************************************************)
(* C11: a call whose enqueue the agent rejects returns the failure at once. *)
(***************************************************************************)
\* The step of task t in which MQTTAgent_Publish / _Subscribe / _Unsubscribe
\* returns a status other than MQTTSuccess.
EnqueueRejected(t) ==
    bpc[t] = "enqueue" /\ bpc'[t] # "enqueue" /\ mqttStatus'[t] # MQTTSuccess

\* The step in which a call that was rejected returns to its caller.
RejectedReturns(t) ==
    bpc[t] = "ret" /\ cause[t].kind = "rejected" /\ bpc'[t] = "idle"

\* C11: when the agent rejects the enqueue of a publish, subscribe or
\* unsubscribe, the call goes straight to its return without a wait, gives
\* the agent no command, leaves the registry as it is and returns the
\* failure code of its operation.
C11_RejectedEnqueueReturnsAtOnce ==
    /\ [][\A t \in Tasks :
            /\ EnqueueRejected(t)
                 => /\ bpc'[t] = "ret"
                    /\ registry' = registry
                    /\ agentQ' = agentQ
                    /\ elapsed'[t] = 0
            /\ RejectedReturns(t)
                 => /\ registry' = registry
                    /\ lastRet'[t].ota = OtaFailure(cur[t].op)
       ]_vars
    /\ [](\A t \in Tasks :
            /\ (bpc[t] = "wait" => mqttStatus[t] = MQTTSuccess)
            /\ (lastRet[t].kind = "rejected"
                  => lastRet[t].waited = 0 /\ lastRet[t].ota # OtaMqttSuccess))

\* A subscribe that the agent rejected as busy has returned.
C11_Witness ==
    /\ lastRet[OtaAgentTask].kind = "rejected"
    /\ lastRet[OtaAgentTask].op = "subscribe"
    /\ lastRet[OtaAgentTask].status = MQTTNoMemory
    /\ lastRet[OtaAgentTask].ota = OtaMqttSubscribeFailed

(***************************************************************************)
(* Claims about the job action dispatcher, checked under SpecInbound.       *)
(***************************************************************************)
KnownActions == {ActionPrint, ActionPublish, ActionExit}

\* The step in which prvProcessJobDocument looks at the document.
DispatcherStep == apc = "doc" /\ apc' # "doc"

\* C19: for a document whose action is missing or is not a known action
\* the dispatcher reports the status "FAILED".
C19_UnknownOrMissingActionReportsFailed ==
    [][(/\ DispatcherStep
        /\ \/ ~usJobsDocumentBuffer.hasAction
           \/ usJobsDocumentBuffer.action \notin KnownActions)
          => /\ job'.report = "FAILED"
             /\ apc' = "send_update"
      ]_vars

\* C20: for a document whose action is unknown the dispatcher sends no
\* status report and changes nothing else: no publish is enqueued, no flag
\* is set and the agent is not asked to terminate.
C20_UnknownActionHasNoEffect ==
    [][(/\ DispatcherStep
        /\ usJobsDocumentBuffer.hasAction
        /\ prvGetAction(usJobsDocumentBuffer.action, Len(usJobsDocumentBuffer.action))
               = JOB_ACTION_UNKNOWN)
          => /\ apc' = "idle"
             /\ job' = NoJob
             /\ msg'.done
             /\ UNCHANGED <<reports, xExitActionJobReceived, xDemoEncounteredError,
                            terminateRequests, otaEvents, dataLength>>
             /\ UNCHANGED <<poolVars, bridgeVars>>
      ]_vars

\* The dispatcher has been through the document {"action":"bogus"} of the
\* first message and the callback has returned.
C20_Witness ==
    /\ nMsgs = 1
    /\ apc = "idle"
    /\ msg.dispatched
    /\ msg.done
    /\ usJobsDocumentBuffer.hasAction
    /\ usJobsDocumentBuffer.action = ActionBogus
    /\ reports = <<>>

(***************************************************************************)
(* Claims about the actions of the job dispatcher, checked under            *)
(* SpecInbound.                                                              *)
(***************************************************************************)
\* The callback has returned from the first message, whose job document the
\* dispatcher has been through.
FirstDocHandled ==
    /\ nMsgs = 1
    /\ apc = "idle"
    /\ msg.done
    /\ msg.dispatched
    /\ usJobsDocumentBuffer.present

DocAction(a) == usJobsDocumentBuffer.hasAction /\ usJobsDocumentBuffer.action = a

StatusOfOnlyReport == IF Len(reports) = 1 THEN reports[1].status ELSE "none"

\* C21: for the action "print" the dispatcher sends exactly one report,
\* "SUCCEEDED" with a message field and "FAILED" without one, and neither
\* relays a publish nor asks the agent to terminate.
C21_PrintReportsByMessageField ==
    /\ []((FirstDocHandled /\ DocAction(ActionPrint))
            => /\ StatusOfOnlyReport =
                     (IF usJobsDocumentBuffer.hasMessage THEN "SUCCEEDED" ELSE "FAILED")
               /\ job.relay = "none"
               /\ terminateRequests = 0
               /\ ~xExitActionJobReceived
               /\ ~xDemoEncounteredError)
    /\ [][(DispatcherStep /\ DocAction(ActionPrint))
            => /\ apc' = "send_update"
               /\ job'.then = "none"
               /\ UNCHANGED <<reports, terminateRequests, agentQ>>
       ]_vars

\* A "print" document without a message has been reported as FAILED.
C21_Witness ==
    /\ FirstDocHandled
    /\ DocAction(ActionPrint)
    /\ ~usJobsDocumentBuffer.hasMessage
    /\ StatusOfOnlyReport = "FAILED"

BothFields == usJobsDocumentBuffer.hasTopic /\ usJobsDocumentBuffer.hasMessage

\* The step in which xPublishToTopic returns.
RelayStep == apc = "relay" /\ apc' # "relay"

\* C22: for the action "publish" with topic and message the dispatcher
\* calls the relay publish and then reports "SUCCEEDED" whatever the relay
\* returned; a failed relay sets the error flag, a successful one leaves it.
C22_PublishReportsSucceededAfterRelay ==
    /\ []((FirstDocHandled /\ DocAction(ActionPublish) /\ BothFields)
            => /\ job.relay # "none"
               /\ StatusOfOnlyReport = "SUCCEEDED"
               /\ (xDemoEncounteredError <=> job.relay = "pdFALSE"))
    /\ [][/\ (DispatcherStep /\ DocAction(ActionPublish) /\ BothFields)
               => apc' = "relay" /\ UNCHANGED <<reports, xDemoEncounteredError>>
          /\ RelayStep
               => /\ apc' = "send_update"
                  /\ job'.report = "SUCCEEDED"
                  /\ job'.relay \in {"pdTRUE", "pdFALSE"}
                  /\ (job'.relay = "pdFALSE" => xDemoEncounteredError')
                  /\ (job'.relay = "pdTRUE" => UNCHANGED xDemoEncounteredError)
       ]_vars

\* The relay publish failed, the error flag is set and the job has been
\* reported as SUCCEEDED.
C22_Witness ==
    /\ FirstDocHandled
    /\ DocAction(ActionPublish)
    /\ job.relay = "pdFALSE"
    /\ xDemoEncounteredError
    /\ StatusOfOnlyReport = "SUCCEEDED"

\* C23: for the action "publish" without a topic or without a message the
\* dispatcher reports "FAILED" and does not call the relay publish.
C23_PublishWithoutFieldReportsFailed ==
    /\ []((FirstDocHandled /\ DocAction(ActionPublish) /\ ~BothFields)
            => /\ StatusOfOnlyReport = "FAILED"
               /\ job.relay = "none"
               /\ ~xDemoEncounteredError)
    /\ [][(DispatcherStep /\ DocAction(ActionPublish) /\ ~BothFields)
            => /\ apc' = "send_update"
               /\ job'.report = "FAILED"
               /\ job'.relay = "none"
       ]_vars

\* A "publish" document with a topic and without a message has been
\* reported as FAILED.
C23_Witness ==
    /\ FirstDocHandled
    /\ DocAction(ActionPublish)
    /\ usJobsDocumentBuffer.hasTopic
    /\ ~usJobsDocumentBuffer.hasMessage
    /\ StatusOfOnlyReport = "FAILED"
    /\ job.relay = "none"

\* The step in which MQTTAgent_Terminate is called.
TerminateStep == terminateRequests' # terminateRequests

\* C24: for the action "exit" the dispatcher first sends the report
\* "SUCCEEDED" and is back from prvSendUpdateForJob, whose wait has ended
\* by a completion or by the timeout, before it asks the agent to terminate;
\* it asks exactly once, whatever became of the status publish.
C24_ExitReportsThenTerminatesOnce ==
    /\ []((FirstDocHandled /\ DocAction(ActionExit))
            => /\ terminateRequests = 1
               /\ StatusOfOnlyReport = "SUCCEEDED"
               /\ xExitActionJobReceived)
    /\ [][/\ (DispatcherStep /\ DocAction(ActionExit))
               => /\ apc' = "send_update"
                  /\ job'.report = "SUCCEEDED"
                  /\ UNCHANGED terminateRequests
          /\ TerminateStep
               => /\ terminateRequests' = terminateRequests + 1
                  /\ DocAction(ActionExit)
                  /\ bpc[MqttAgentTask] = "idle"
                  /\ lastRet[MqttAgentTask].op = "status"
                  /\ (lastRet[MqttAgentTask].kind = "timeout"
                         => lastRet[MqttAgentTask].waited = TimeoutTicks)
                  /\ reports # <<>>
                  /\ reports[Len(reports)].status = "SUCCEEDED"
                  /\ msg'.done
       ]_vars

\* The agent rejected the status publish of an "exit" job and was asked to
\* terminate all the same.
C24_Witness ==
    /\ FirstDocHandled
    /\ DocAction(ActionExit)
    /\ lastRet[MqttAgentTask].kind = "rejected"
    /\ terminateRequests = 1

\* The topic of the UpdateJobExecution API for a job of this thing.
UpdateTopicOf(jobId) ==
    <<"$", "a", "w", "s", "/", "t", "h", "i", "n", "g", "s", "/">>
        \o democonfigCLIENT_IDENTIFIER
        \o <<"/", "j", "o", "b", "s", "/">> \o jobId
        \o <<"/", "u", "p", "d", "a", "t", "e">>

\* C25: prvSendUpdateForJob publishes the report with QoS 1 to the update
\* topic built from the thing name and the job identifier, and once the
\* publish is enqueued it returns only after the completion callback of that
\* publish has fired or the timeout has elapsed.
C25_StatusReportIsSynchronous ==
    /\ [](\A i \in 1 .. Len(reports) :
            /\ reports[i].qos = MQTTQoS1
            /\ reports[i].topic = UpdateTopicOf(reports[i].jobId))
    /\ []((lastRet[MqttAgentTask].op = "status" /\ lastRet[MqttAgentTask].kind # "rejected")
            => \/ /\ lastRet[MqttAgentTask].kind = "timeout"
                  /\ lastRet[MqttAgentTask].waited = TimeoutTicks
               \/ /\ lastRet[MqttAgentTask].kind = "wake"
                  /\ lastRet[MqttAgentTask].ownWake
                  /\ lastRet[MqttAgentTask].own # "none")
    /\ [][(apc = "in_update" /\ apc' # "in_update") => bpc[MqttAgentTask] = "ret"]_vars

\* A status publish that the agent accepted has returned after the whole
\* timeout.
C25_Witness ==
    /\ lastRet[MqttAgentTask].op = "status"
    /\ lastRet[MqttAgentTask].kind = "timeout"
    /\ lastRet[MqttAgentTask].waited = TimeoutTicks
    /\ reports # <<>>
    /\ apc = "idle"

(***************************************************************************)
(* Claims about the receive callbacks.                                      *)
(***************************************************************************)
\* The step in which a receive callback is back from prvOTAEventBufferGet
\* and runs to its end.
AfterGetStep == apc = "get" /\ apc' = "idle"

BlockEvent(pData) == [eventId |-> OtaAgentEventReceivedFileBlock, pEventData |-> pData]

\* C26: the data-block callback, with a buffer from the pool, tags it with
\* the payload length and enqueues exactly one block-received event that
\* refers to it; without one it enqueues nothing and changes no slot.
C26_BlockIsQueuedOrDropped ==
    [][(AfterGetStep /\ msg.cb = prvProcessIncomingDataCb)
         => IF pFreeBuffer[MqttAgentTask] # NULL
            THEN /\ dataLength'[pFreeBuffer[MqttAgentTask]] = msg.payloadLength
                 /\ otaEvents' = Append(otaEvents, BlockEvent(pFreeBuffer[MqttAgentTask]))
            ELSE /\ AllUsed
                 /\ UNCHANGED <<otaEvents, bufferUsed, dataLength>>
      ]_vars

\* C27: a block of exactly OTA_DATA_BLOCK_SIZE bytes is accepted when a
\* buffer is free; a block one byte larger stops on the assertion whatever
\* the pool holds, before the pool is touched.
C27_SizeCheckBeforeAcquire ==
    /\ [][(apc = "data_entry" /\ (apc' # apc \/ fault'))
            => IF msg.payloadLength > OTA_DATA_BLOCK_SIZE
               THEN /\ fault'
                    /\ UNCHANGED <<poolVars, otaEvents, dataLength>>
               ELSE /\ ~fault'
                    /\ apc' = "get"
                    /\ UNCHANGED <<bufferUsed, otaEvents, dataLength>>
       ]_vars
    /\ []((msg.cb = prvProcessIncomingDataCb /\ msg.payloadLength > OTA_DATA_BLOCK_SIZE
             /\ apc # "data_entry")
            => /\ fault
               /\ msg.acquired = NULL
               /\ ppc[MqttAgentTask] = "none")
    /\ []((msg.cb = prvProcessIncomingDataCb /\ msg.done
             /\ msg.payloadLength = OTA_DATA_BLOCK_SIZE /\ msg.freeAtEntry)
            => /\ msg.acquired # NULL
               /\ dataLength[msg.acquired] = OTA_DATA_BLOCK_SIZE)

\* A block one byte over the limit has stopped the program while every
\* buffer of the pool was in use.
C27_Witness ==
    /\ fault
    /\ msg.cb = prvProcessIncomingDataCb
    /\ msg.payloadLength = OTA_DATA_BLOCK_SIZE + 1
    /\ AllUsed

HasReservedPrefix(jobId) == strncmp(jobId, AFR_OTA, Len(AFR_OTA)) = 0

\* C28: a job message whose identifier lacks the reserved prefix goes to the
\* dispatcher when it announces the next job and is only logged when it
\* acknowledges or rejects an update or rejects a start-next request; it
\* never takes a buffer and never sends an event to the update engine.
C28_CustomJobTakesNoBuffer ==
    /\ []((msg.cb = prvProcessIncomingJobMessageCb /\ ~HasReservedPrefix(msg.jobId))
            => /\ msg.acquired = NULL
               /\ msg.signals = 0
               /\ apc # "get"
               /\ ppc[MqttAgentTask] = "none"
               /\ (msg.done =>
                     (msg.dispatched <=> msg.api \in {JobsDescribeSuccess, JobsNextJobChanged})))
    /\ [][(msg'.cb = prvProcessIncomingJobMessageCb /\ ~HasReservedPrefix(msg'.jobId)
             /\ apc' # "idle")
            => /\ \A s \in Slots : bufferUsed'[s] => bufferUsed[s]
               /\ UNCHANGED dataLength
               /\ (otaEvents' = otaEvents \/ otaEvents' = Tail(otaEvents))
       ]_vars
    /\ [][(apc = "job_entry" /\ apc' # apc /\ ~HasReservedPrefix(msg.jobId)
             /\ msg.api \in {JobsUpdateSuccess, JobsUpdateFailed, JobsStartNextFailed})
            => /\ apc' = "idle"
               /\ msg'.done
               /\ UNCHANGED <<poolVars, bridgeVars, otaEvents, dataLength, job, reports,
                              xExitActionJobReceived, xDemoEncounteredError,
                              terminateRequests>>
       ]_vars

\* A message that announces the next job of the application has been given
\* to the dispatcher and the callback has returned.
C28_Witness ==
    /\ msg.cb = prvProcessIncomingJobMessageCb
    /\ msg.jobId = CustomJobId
    /\ msg.api = JobsNextJobChanged
    /\ msg.dispatched
    /\ msg.done
    /\ usJobIdBuffer = CustomJobId

\* The positions inside acquire and release at which the mutex is held.
InsideMutex == {"get_scan", "get_set", "get_give", "free_clear", "free_give"}

\* C29: the pool mutex is held only for the scan and the flag flip: a task
\* that copies a payload, sends an event to the update engine or is inside a
\* Command Bridge call does not hold it, and the used flags change only in
\* acquire and release, under the mutex.
C29_MutexOnlyAroundScanAndFlip ==
    /\ [](\A t \in Tasks :
            /\ (xBufferSemaphore = t => ppc[t] \in InsideMutex)
            /\ (bpc[t] # "idle" => xBufferSemaphore # t))
    /\ []((apc = "get" /\ ppc[MqttAgentTask] = "get_ret") => xBufferSemaphore # MqttAgentTask)
    /\ []((apc \notin {"get", "idle"}) => xBufferSemaphore # MqttAgentTask)
    /\ [][bufferUsed' # bufferUsed
            => \E t \in Tasks :
                 /\ xBufferSemaphore = t
                 /\ ppc[t] \in {"get_set", "free_clear"}
                 /\ ppc'[t] # ppc[t]
       ]_vars

\* The MQTT agent task is back from acquire with a buffer and about to copy
\* the payload into it, while the update engine's task holds the mutex to
\* release another buffer.
C29_Witness ==
    /\ apc = "get"
    /\ ppc[MqttAgentTask] = "get_ret"
    /\ pFreeBuffer[MqttAgentTask] # NULL
    /\ xBufferSemaphore = OtaAgentTask
    /\ ppc[OtaAgentTask] = "free_clear"

(***************************************************************************)
(* Claims about suspend and resume, checked under SpecLifecycle.            *)
(***************************************************************************)
SuspendedOrStopped == {OtaAgentStateSuspended, OtaAgentStateStopped}

\* Positions of a call that has gone past the if.
PastIf == {"s_req", "s_loop1", "s_loop2", "r_req", "r_loop"}

\* C30: vSuspendOTACodeSigningDemo, entered with the engine suspended or
\* stopped, sends no suspend request and returns without a delay; when it
\* has sent one it returns only with the engine suspended or stopped.
\* vResumeOTACodeSigningDemo, entered with the engine not suspended, sends
\* no resume request and returns without a delay; when it has sent one it
\* returns only with the engine no longer suspended. No call sends more
\* than one request.
C30_SuspendResumeIdempotent ==
    /\ []((lcall.fn = "suspend" /\ lcall.entry \in SuspendedOrStopped)
            => lcall.requested = 0 /\ lcall.delays = 0 /\ lpc \notin PastIf)
    /\ []((lcall.fn = "suspend" /\ lcall.requested > 0 /\ lpc = "ret")
            => otaState \in SuspendedOrStopped)
    /\ []((lcall.fn = "resume" /\ lcall.entry # OtaAgentStateSuspended)
            => lcall.requested = 0 /\ lcall.delays = 0 /\ lpc \notin PastIf)
    /\ []((lcall.fn = "resume" /\ lcall.requested > 0 /\ lpc = "ret")
            => otaState # OtaAgentStateSuspended)
    /\ [](lcall.requested <= 1)
    /\ [][Len(otaRequests') > Len(otaRequests)
            => \/ /\ lpc = "s_req"
                  /\ lcall.entry \notin SuspendedOrStopped
                  /\ otaRequests' = Append(otaRequests, OtaAgentEventSuspend)
               \/ /\ lpc = "r_req"
                  /\ otaState \in SuspendedOrStopped
                  /\ otaRequests' = Append(otaRequests, OtaAgentEventResume)
               \/ /\ UNCHANGED lpc
                  /\ otaRequests' = Append(otaRequests, OtaAgentEventShutdown)
       ]_vars

\* A second call of vSuspendOTACodeSigningDemo, made with the engine already
\* suspended, is about to return without having sent a request.
C30_Witness ==
    /\ nLifeCalls >= 2
    /\ lcall.fn = "suspend"
    /\ lcall.entry = OtaAgentStateSuspended
    /\ lcall.requested = 0
    /\ lpc = "ret"

(***************************************************************************)
(* Claims about the staging of a job, checked under SpecStaging.            *)
(***************************************************************************)
\* C31: prvNextJobHandler copies no job identifier of JOBS_JOBID_MAX_LENGTH
\* bytes or more and no job document larger than usJobsDocumentBuffer, and
\* gives neither to the dispatcher.
C31_OversizeRejectedBeforeCopy ==
    /\ [](~stageOverrun)
    /\ [](stagedJobIdLength < JOBS_JOBID_MAX_LENGTH)
    /\ [](stagedDocLength <= JobsDocumentBufferSize)
    /\ [](stageDispatched =>
            /\ stagePayload.ulJobIdLength < JOBS_JOBID_MAX_LENGTH
            /\ stagePayload.ulJobDocLength <= JobsDocumentBufferSize)

(***************************************************************************)
(* Claims about the lifecycle callback and the demo loop, checked under     *)
(* SpecShutdown.                                                             *)
(***************************************************************************)
\* The step in which otaAppCallback runs.
AppCallbackStep == nAppEvents' # nAppEvents

\* C32: otaAppCallback calls OTA_Shutdown when OTA_ActivateNewImage has
\* returned and when the self test has failed, and for no other event; the
\* loop of prvOTADemoTask goes on to the statistics while the state it reads
\* is not stopped, leaves only when it reads stopped, and once the engine
\* is stopped the loop is left.
C32_FailureLeadsToOrderlyShutdown ==
    /\ [][AppCallbackStep
            => /\ ((appEvent'.event = OtaJobEventActivate /\ appEvent'.returned)
                     => otaRequests' = Append(otaRequests, OtaAgentEventShutdown))
               /\ (appEvent'.event = OtaJobEventSelfTestFailed
                     => otaRequests' = Append(otaRequests, OtaAgentEventShutdown))
               /\ (appEvent'.event \notin {OtaJobEventActivate, OtaJobEventSelfTestFailed}
                     => UNCHANGED <<otaRequests, otaState>>)
               /\ (~deviceReset' => UNCHANGED <<otaState, dpc>>)
       ]_vars
    /\ [][(dpc = "check" /\ dpc' # dpc)
            => IF otaState = OtaAgentStateStopped THEN dpc' = "exited" ELSE dpc' = "stats"
       ]_vars
    /\ [][(dpc = "stats" /\ dpc' # dpc /\ ~AppCallbackStep)
            => (dpc' = "check" /\ statsReported')
       ]_vars
    /\ [][dpc = "exited" => dpc' = "exited"]_vars
    /\ [](dpc = "exited" => otaState = OtaAgentStateStopped)
    /\ ((otaState = OtaAgentStateStopped) ~> (dpc = "exited"))

\* OTA_ActivateNewImage returned, the callback asked for the shutdown, the
\* engine has stopped and the loop of prvOTADemoTask is left.
C32_Witness ==
    /\ appEvent.event = OtaJobEventActivate
    /\ appEvent.returned
    /\ otaState = OtaAgentStateStopped
    /\ statsReported
    /\ dpc = "exited"

(***************************************************************************)
(* Claims about prvGetAction, checked under SpecAction.                     *)
(***************************************************************************)
\* The value of the "action" key: the first xActionLength bytes at pcAction.
ActionValue == SubSeq(pcActionValue, 1, xActionValueLength)

\* C36: prvGetAction returns print, publish or exit exactly for the value
\* that equals the keyword, and unknown for every other value.
C36_ActionByExactKeyword ==
    xAction # NotClassified
        => xAction = CASE ActionValue = ActionPrint -> JOB_ACTION_PRINT
                       [] ActionValue = ActionPublish -> JOB_ACTION_PUBLISH
                       [] ActionValue = ActionExit -> JOB_ACTION_EXIT
                       [] OTHER -> JOB_ACTION_UNKNOWN

(***************************************************************************)
(* Claims about the completion callbacks, checked under SpecBridge.         *)
(***************************************************************************)
\* The step in which the completion callback of the subscribe or
\* unsubscribe command c runs to its end.
SubscriptionCallbackStep(c) ==
    /\ c \in agentQ
    /\ c \notin agentQ'
    /\ c.op # "publish"
    /\ ~fault'

WaitReturnStep(t) == bpc[t] = "wait" /\ bpc'[t] = "ret"

\* C34: when the completion callback of a call has fired after the enqueue
\* and before xTaskNotifyWait returns, also before the wait began, the wait
\* returns pdTRUE and the call takes the return code of its own completion.
C34_NoWakeupLost ==
    [][\A t \in Tasks :
         (WaitReturnStep(t) /\ ownDone[t] # "none")
           => /\ cause'[t].kind = "wake"
              /\ mqttStatus'[t] = ownDone[t]
      ]_vars

\* C39: a completion that arrives after its call has returned, the timeout
\* result included, leaves the subscription registry as it is.
C39_LateCompletionLeavesRegistry ==
    [][\A c \in agentQ :
         (c \notin agentQ' /\ c.op # "publish" /\ ~FrameLive(c.id))
           => registry' = registry
      ]_vars

\* C35: prvMQTTSubscribe registers the receive callback of the category of
\* the topic filter: every subscribe that has passed the entry of the call,
\* and every subscribe command handed to the agent, carries a filter that is
\* classified as job-control with the job-message callback or as data-stream
\* with the data-block callback; a filter classified as Unrecognized never
\* gets that far (the call stops at the assertion).
SubscribeMatches(topic, cb) ==
    LET type == getOtaMessageType(topic, Len(topic))
    IN /\ type \in {OtaMessageTypeJob, OtaMessageTypeStream}
       /\ type = OtaMessageTypeJob => cb = prvProcessIncomingJobMessageCb
       /\ type = OtaMessageTypeStream => cb = prvProcessIncomingDataCb

C35_SubscribeCallbackMatchesCategory ==
    /\ \A t \in BridgeCallers :
          (bpc[t] # "idle" /\ cur[t].op = "subscribe")
            => SubscribeMatches(cur[t].topic, cur[t].cb)
    /\ \A c \in agentQ : c.op = "subscribe" => SubscribeMatches(c.topic, c.cb)

\* C35 witness: a data-stream subscribe was handed to the agent with the
\* data-block callback and timed out; the next call, the first thing after
\* it, is a subscribe with the unrecognized filter, which stopped at the
\* assertion with nothing more enqueued.
C35_Witness ==
    /\ fault /\ ~uaf
    /\ nCalls = 1
    /\ bpc[OtaAgentTask] = "idle"
    /\ \E c \in agentQ : /\ c.op = "subscribe" /\ c.topic = TopicStream
                         /\ c.cb = prvProcessIncomingDataCb
    /\ Cardinality(agentQ) = 1
\* C37: when the job action dispatcher runs inline in the job-message
\* callback, on the MQTT agent task, the blocking wait of the status publish
\* in prvSendUpdateForJob is ended by the completion callback of that
\* publish and not by the timeout, given that the agent processes every
\* enqueued command whenever its task is free.
C37_InlineStatusPublishCompletes ==
    [][WaitReturnStep(MqttAgentTask)
         => /\ cause'[MqttAgentTask].kind = "wake"
            /\ cause'[MqttAgentTask].src = cur[MqttAgentTask].id
      ]_vars
\* The events that refer to slot s: those queued in the update engine, and
\* the one the engine is processing until its release has cleared the slot.
EventRefs(s) ==
    Cardinality({i \in 1 .. Len(otaEvents) : otaEvents[i].pEventData = s})
      + (IF /\ ppc[OtaAgentTask] \in {"free_take", "free_clear"}
            /\ pxBuffer[OtaAgentTask] = s
         THEN 1 ELSE 0)

\* The receive callback in progress has acquired slot s and has not yet
\* signalled its event.
CallbackHolds(s) ==
    /\ apc = "get"
    /\ ppc[MqttAgentTask] \in {"get_give", "get_ret"}
    /\ pFreeBuffer[MqttAgentTask] = s

\* C38: no pool slot leaks: each slot marked used, once the callback that
\* acquired it has signalled its event, is referenced by exactly one event
\* that is queued in or being processed by the update engine, also when the
\* enqueue of the event was refused.
C38_NoSlotLeaks ==
    \A s \in Slots : (bufferUsed[s] /\ ~CallbackHolds(s)) => EventRefs(s) = 1
\* The step in which the completion callback of command c runs.
CompletionStep(c) == c \in agentQ /\ c \notin agentQ'

\* C40: with the update engine and the job action dispatcher issuing
\* commands at the same time, the completion callback of a command touches
\* the notification and the call of the task that issued it only: when it
\* notifies, it notifies that task on behalf of that command, and it
\* leaves the notification state, the status and the call of every other
\* task as they were; a notification pending for a task never comes from
\* the call another task has in progress.
C40_CompletionWakesItsIssuerOnly ==
    /\ [][\A c \in agentQ :
            CompletionStep(c)
              => /\ \A t \in Tasks \ {c.task} :
                       /\ notifyPending'[t] = notifyPending[t]
                       /\ notifyValue'[t] = notifyValue[t]
                       /\ notifySrc'[t] = notifySrc[t]
                       /\ mqttStatus'[t] = mqttStatus[t]
                       /\ cur'[t] = cur[t]
                       /\ bpc'[t] = bpc[t]
                 /\ ~fault' => /\ notifyPending'[c.task]
                               /\ notifySrc'[c.task] = c.id
         ]_vars
    /\ [](\A t \in Tasks : \A u \in Tasks \ {t} :
            (notifyPending[t] /\ bpc[u] # "idle") => notifySrc[t] # cur[u].id)

\* C40 witness: while the update engine waits for the completion of its
\* command, still queued, the completion of a status publish the dispatcher
\* issued later has run: it notified the MQTT agent task and left the
\* update engine's task waiting with nothing pending.
C40_Witness ==
    /\ bpc[OtaAgentTask] = "wait"
    /\ ~notifyPending[OtaAgentTask]
    /\ \E c \in agentQ : c.task = OtaAgentTask /\ c.id = cur[OtaAgentTask].id
    /\ notifyPending[MqttAgentTask]
    /\ notifySrc[MqttAgentTask] > cur[OtaAgentTask].id
    /\ ~fault
====
